---- MODULE Spec2Model ----
(***************************************************************************)
(* A model of the analysis core of C_SDE.py: the DataflowAnalyzer (line    *)
(* classification, variable table, dependencies, reaching definitions,     *)
(* operation chain) and the TTAGraphAnalyzer (blocks, arcs, binding of     *)
(* operations to blocks).  Source lines are strings; the regular           *)
(* expressions of the source are written as syntax trees and matched by a  *)
(* backtracking matcher that follows Python's re priorities.               *)
(***************************************************************************)
EXTENDS Integers, Sequences, FiniteSets, TLC

(***************************************************************************)
(* Characters and Python string primitives.                                *)
(***************************************************************************)
Lower == {"a","b","c","d","e","f","g","h","i","j","k","l","m",
          "n","o","p","q","r","s","t","u","v","w","x","y","z"}
Upper == {"A","B","C","D","E","F","G","H","I","J","K","L","M",
          "N","O","P","Q","R","S","T","U","V","W","X","Y","Z"}
Digit == {"0","1","2","3","4","5","6","7","8","9"}
\* [a-zA-Z_]
IdStart == Lower \cup Upper \cup {"_"}
\* [a-zA-Z0-9_], also the \w of \b
IdChar == IdStart \cup Digit
\* \s
Space == {" ", "\t"}

\* s[i] for a 0-based index i, "" outside the string
At(s, i) == IF i >= 0 /\ i < Len(s) THEN SubSeq(s, i + 1, i + 1) ELSE ""

\* s[i:] and s[:i]
From(s, i) == SubSeq(s, i + 1, Len(s))
Upto(s, i) == SubSeq(s, 1, i)

\* s.startswith(w)
StartsWith(s, w) == Len(w) <= Len(s) /\ SubSeq(s, 1, Len(w)) = w

\* s.find(w): the least 0-based index where w occurs in s, or -1
Find(s, w) ==
    LET hits == {i \in 0..(Len(s) - Len(w)) : SubSeq(s, i + 1, i + Len(w)) = w}
    IN IF hits = {} THEN -1 ELSE CHOOSE i \in hits : \A j \in hits : i <= j

\* s.rfind(w)
RFind(s, w) ==
    LET hits == {i \in 0..(Len(s) - Len(w)) : SubSeq(s, i + 1, i + Len(w)) = w}
    IN IF hits = {} THEN -1 ELSE CHOOSE i \in hits : \A j \in hits : i >= j

\* w in s
Contains(s, w) == Find(s, w) # -1

\* s.count(c) for a single character c
Count(s, c) == Cardinality({i \in 0..(Len(s) - 1) : At(s, i) = c})

\* s.strip()
RECURSIVE LStrip(_)
LStrip(s) == IF Len(s) > 0 /\ At(s, 0) \in Space THEN LStrip(From(s, 1)) ELSE s
RECURSIVE RStrip(_)
RStrip(s) ==
    IF Len(s) > 0 /\ At(s, Len(s) - 1) \in Space THEN RStrip(Upto(s, Len(s) - 1)) ELSE s
Strip(s) == RStrip(LStrip(s))

\* s.isdigit()
IsDigit(s) == Len(s) > 0 /\ \A i \in 0..(Len(s) - 1) : At(s, i) \in Digit

\* s.split(w, 1)[1] when w occurs in s
AfterFirst(s, w) == From(s, Find(s, w) + Len(w))

(***************************************************************************)
(* Regular expressions as syntax trees.                                    *)
(***************************************************************************)
Chr(S) == [t |-> "chr", set |-> S]
NotChr(S) == [t |-> "nchr", set |-> S]
Lit(w) == [t |-> "lit", s |-> w]
Cat(ps) == [t |-> "cat", ps |-> ps]
Alt(ps) == [t |-> "alt", ps |-> ps]
Star(r) == [t |-> "star", r |-> r]
Plus(r) == [t |-> "cat", ps |-> <<r, [t |-> "star", r |-> r]>>]
Opt(r) == [t |-> "alt", ps |-> <<r, [t |-> "cat", ps |-> <<>>]>>]
WB == [t |-> "wb"]
Grp(k, r) == [t |-> "grp", k |-> k, r |-> r]

\* the unset capture groups of a match
NoGroups == <<<<-1, -1>>, <<-1, -1>>>>

\* M(r, s, i, g): the matches of r in s that start at offset i, as <<end, groups>>
\* pairs in the order Python's backtracking tries them (greedy first).
RECURSIVE M(_, _, _, _), MCat(_, _, _, _, _), ThenCat(_, _, _, _), MAlt(_, _, _, _, _)
RECURSIVE MStar(_, _, _, _), ThenStar(_, _, _, _), SetGroup(_, _, _)
M(r, s, i, g) ==
    CASE r.t = "chr" -> IF i < Len(s) /\ At(s, i) \in r.set THEN <<<<i + 1, g>>>> ELSE <<>>
      [] r.t = "nchr" -> IF i < Len(s) /\ At(s, i) \notin r.set THEN <<<<i + 1, g>>>> ELSE <<>>
      [] r.t = "lit" -> IF i + Len(r.s) <= Len(s) /\ SubSeq(s, i + 1, i + Len(r.s)) = r.s
                        THEN <<<<i + Len(r.s), g>>>> ELSE <<>>
      [] r.t = "wb" -> IF (At(s, i - 1) \in IdChar) # (At(s, i) \in IdChar)
                       THEN <<<<i, g>>>> ELSE <<>>
      [] r.t = "cat" -> MCat(r.ps, 1, s, i, g)
      [] r.t = "alt" -> MAlt(r.ps, 1, s, i, g)
      [] r.t = "star" -> MStar(r.r, s, i, g)
      [] r.t = "grp" -> SetGroup(M(r.r, s, i, g), r.k, i)
MCat(ps, k, s, i, g) ==
    IF k > Len(ps) THEN <<<<i, g>>>> ELSE ThenCat(M(ps[k], s, i, g), ps, k + 1, s)
ThenCat(res, ps, k, s) ==
    IF Len(res) = 0 THEN <<>>
    ELSE MCat(ps, k, s, res[1][1], res[1][2]) \o ThenCat(Tail(res), ps, k, s)
MAlt(ps, k, s, i, g) ==
    IF k > Len(ps) THEN <<>> ELSE M(ps[k], s, i, g) \o MAlt(ps, k + 1, s, i, g)
MStar(r, s, i, g) == ThenStar(M(r, s, i, g), r, s, i) \o <<<<i, g>>>>
ThenStar(res, r, s, i) ==
    IF Len(res) = 0 THEN <<>>
    ELSE (IF res[1][1] > i THEN MStar(r, s, res[1][1], res[1][2]) ELSE <<>>)
         \o ThenStar(Tail(res), r, s, i)
SetGroup(res, k, i) ==
    IF Len(res) = 0 THEN <<>>
    ELSE <<<<res[1][1], [res[1][2] EXCEPT ![k] = <<i, res[1][1]>>]>>>>
         \o SetGroup(Tail(res), k, i)

NoMatch == [ok |-> FALSE, st |-> -1, e |-> -1, g |-> NoGroups]

\* re.search(r, s) restricted to start offsets >= i: the leftmost match
RECURSIVE SearchFrom(_, _, _)
SearchFrom(r, s, i) ==
    IF i > Len(s) THEN NoMatch
    ELSE LET m == M(r, s, i, NoGroups)
         IN IF Len(m) > 0 THEN [ok |-> TRUE, st |-> i, e |-> m[1][1], g |-> m[1][2]]
            ELSE SearchFrom(r, s, i + 1)
Search(r, s) == SearchFrom(r, s, 0)

\* match.group(k)
Group(s, m, k) == SubSeq(s, m.g[k][1] + 1, m.g[k][2])

\* every match of re.finditer(r, s), left to right, not overlapping
RECURSIVE FindIter(_, _, _)
FindIter(r, s, i) ==
    LET m == SearchFrom(r, s, i)
    IN IF ~m.ok THEN <<>>
       ELSE <<m>> \o FindIter(r, s, IF m.e > m.st THEN m.e ELSE m.e + 1)

\* re.sub(r, repl, s): s with every match of r replaced; the replacement is w,
\* preceded by the text of group 1 when keep1 (the template \1 followed by w).
\* Splice(ms, k, s, ..) is the result from match k on, At(ms, k) its start in s
RECURSIVE Splice(_, _, _, _, _)
Splice(ms, k, s, w, keep1) ==
    IF k > Len(ms) THEN From(s, IF Len(ms) = 0 THEN 0 ELSE ms[Len(ms)].e)
    ELSE SubSeq(s, (IF k = 1 THEN 0 ELSE ms[k - 1].e) + 1, ms[k].st)
         \o (IF keep1 THEN Group(s, ms[k], 1) ELSE "") \o w
         \o Splice(ms, k + 1, s, w, keep1)
Sub(r, w, keep1, s) == Splice(FindIter(r, s, 0), 1, s, w, keep1)

\* list(dict.fromkeys(xs)): xs without repeats, first occurrences kept in order
RECURSIVE Dedup(_)
Dedup(xs) ==
    IF Len(xs) = 0 THEN <<>>
    ELSE LET front == Dedup(Upto(xs, Len(xs) - 1))
             last == xs[Len(xs)]
         IN IF \E k \in 1..Len(front) : front[k] = last THEN front ELSE Append(front, last)

\* the elements of a list, as a set
Elems(xs) == {xs[k] : k \in 1..Len(xs)}

(***************************************************************************)
(* The regular expressions of DataflowAnalyzer.                            *)
(***************************************************************************)
\* (int|char|double|float|long|short|void)
ReTypes == Alt(<<Lit("int"), Lit("char"), Lit("double"), Lit("float"),
                 Lit("long"), Lit("short"), Lit("void")>>)
\* [a-zA-Z_][a-zA-Z0-9_]*
ReIdent == Cat(<<Chr(IdStart), Star(Chr(IdChar))>>)
\* \s* and \s+
ReS0 == Star(Chr(Space))
ReS1 == Plus(Chr(Space))
\* \b(types)\s+ident\s*\([^)]*\)\s*{
ReFuncDef == Cat(<<WB, ReTypes, ReS1, ReIdent, ReS0, Lit("("), Star(NotChr({")"})),
                   Lit(")"), ReS0, Lit("{")>>)
\* \*\s*(ident)\s*=
ReDerefAssign == Cat(<<Lit("*"), ReS0, Grp(1, ReIdent), ReS0, Lit("=")>>)
\* \b(types)\s*\*
RePtrType == Cat(<<WB, ReTypes, ReS0, Lit("*")>>)
\* \b(types)\s*\*?\s*(ident)\s*=
ReDeclInit == Cat(<<WB, Grp(1, ReTypes), ReS0, Opt(Lit("*")), ReS0, Grp(2, ReIdent),
                    ReS0, Lit("=")>>)
\* \b(types)\s*\*?\s+(ident)\s*(?:,|;)
ReDeclList == Cat(<<WB, Grp(1, ReTypes), ReS0, Opt(Lit("*")), ReS1, Grp(2, ReIdent),
                    ReS0, Alt(<<Lit(","), Lit(";")>>)>>)
\* \b(types)\s*(\*?)
ReTypeStar == Cat(<<WB, Grp(1, ReTypes), ReS0, Grp(2, Opt(Lit("*")))>>)
\* (ident)\s*(?:[,;])
ReNameSep == Cat(<<Grp(1, ReIdent), ReS0, Chr({",", ";"})>>)
\* \b(ident)\s*=
ReAssign == Cat(<<WB, Grp(1, ReIdent), ReS0, Lit("=")>>)
\* \b(if|while|for)\s*\(
ReControl == Cat(<<WB, Grp(1, Alt(<<Lit("if"), Lit("while"), Lit("for")>>)), ReS0, Lit("(")>>)
\* (ident)\s*\(
ReCall == Cat(<<Grp(1, ReIdent), ReS0, Lit("(")>>)
\* (ident)\s*=
ReTarget == Cat(<<Grp(1, ReIdent), ReS0, Lit("=")>>)
\* free\s*\(\s*(ident)\s*\)
ReFree == Cat(<<Lit("free"), ReS0, Lit("("), ReS0, Grp(1, ReIdent), ReS0, Lit(")")>>)
\* \*\s*(ident)
ReDeref == Cat(<<Lit("*"), ReS0, Grp(1, ReIdent)>>)
\* \bident\s*\(([^)]*)\)
ReCallArgs == Cat(<<WB, ReIdent, ReS0, Lit("("), Grp(1, Star(NotChr({")"}))), Lit(")")>>)
\* \b(ident)\b
ReWord == Cat(<<WB, Grp(1, ReIdent), WB>>)
\* (ident)\s*\[([^\]]+)\]
ReArray == Cat(<<Grp(1, ReIdent), ReS0, Lit("["), Grp(2, Plus(NotChr({"]"}))), Lit("]")>>)
\* "[^"]*" and '[^']*'
ReString == Cat(<<Lit("\""), Star(NotChr({"\""})), Lit("\"")>>)
ReCharLit == Cat(<<Lit("'"), Star(NotChr({"'"})), Lit("'")>>)
\* \b\d+\b
ReNumber == Cat(<<WB, Plus(Chr(Digit)), WB>>)
\* \b(ident)\.ident
ReField == Cat(<<WB, Grp(1, ReIdent), Lit("."), ReIdent>>)

(***************************************************************************)
(* DataflowAnalyzer.extract_variables_from_expression.                     *)
(***************************************************************************)
\* the filter of call arguments, and c_keywords
ArgKeywords == {"int", "char", "double", "float", "NULL", "sizeof"}
c_keywords ==
    {"int", "char", "double", "float", "long", "short", "void", "signed", "unsigned",
     "if", "else", "while", "for", "do", "switch", "case", "default", "break", "continue",
     "return", "sizeof", "typedef", "struct", "union", "enum", "static", "extern", "const",
     "volatile", "register", "auto", "inline", "restrict", "NULL"}

\* s.split(","): the pieces of s between commas
RECURSIVE SplitComma(_)
SplitComma(s) ==
    LET c == Find(s, ",")
    IN IF c = -1 THEN <<s>> ELSE <<Upto(s, c)>> \o SplitComma(From(s, c + 1))

\* group k of each match of a list of matches of s
GroupsOf(s, ms, k) == [j \in 1..Len(ms) |-> Group(s, ms[j], k)]

\* the list xs without the elements of the set drop
RECURSIVE Without(_, _)
Without(xs, drop) ==
    IF Len(xs) = 0 THEN <<>>
    ELSE (IF xs[1] \in drop THEN <<>> ELSE <<xs[1]>>) \o Without(Tail(xs), drop)

\* the concatenation of a list of lists
RECURSIVE Flatten(_)
Flatten(xss) == IF Len(xss) = 0 THEN <<>> ELSE xss[1] \o Flatten(Tail(xss))

\* both forms of every dereference *name of e: name, then *name
DerefNames(e) ==
    LET ms == FindIter(ReDeref, e, 0)
    IN Flatten([j \in 1..Len(ms) |-> <<Group(e, ms[j], 1), "*" \o Group(e, ms[j], 1)>>])

\* the names one call argument contributes
ArgNames(piece) ==
    LET arg == Strip(piece)
        d == Search(ReDeref, arg)
    IN IF arg = "" \/ IsDigit(arg) THEN <<>>
       ELSE (IF Contains(arg, "*") /\ d.ok
             THEN <<Group(arg, d, 1), "*" \o Group(arg, d, 1)>> ELSE <<>>)
            \o Without(GroupsOf(arg, FindIter(ReWord, arg, 0), 1), ArgKeywords)

\* the names the arguments of every call ident(args) of e contribute
CallArgNames(e) ==
    LET ms == FindIter(ReCallArgs, e, 0)
        OfCall(m) ==
            LET args == Strip(Group(e, m, 1))
                pieces == SplitComma(args)
            IN IF args = "" THEN <<>>
               ELSE Flatten([j \in 1..Len(pieces) |-> ArgNames(pieces[j])])
    IN Flatten([j \in 1..Len(ms) |-> OfCall(ms[j])])

\* the names of every array access name[index] of e
ArrayNames(e) ==
    LET ms == FindIter(ReArray, e, 0)
        OfAccess(m) ==
            <<Group(e, m, 1)>>
            \o Without(GroupsOf(Group(e, m, 2), FindIter(ReWord, Group(e, m, 2), 0), 1),
                       c_keywords)
    IN Flatten([j \in 1..Len(ms) |-> OfAccess(ms[j])])

\* the substitutions that clean an expression, in order: <<pattern, replacement,
\* whether the replacement starts with group 1>>
Cleaners ==
    <<<<ReString, "", FALSE>>, <<ReCharLit, "", FALSE>>, <<ReNumber, "", FALSE>>,
      <<ReCallArgs, "", FALSE>>, <<ReDeref, "", FALSE>>, <<ReArray, "", FALSE>>,
      <<ReField, " ", TRUE>>>>

\* e with literals, numbers, calls, dereferences and array accesses removed and
\* a.b reduced to a: the first k substitutions applied
RECURSIVE CleanedBy(_, _)
CleanedBy(e, k) ==
    IF k = 0 THEN e
    ELSE Sub(Cleaners[k][1], Cleaners[k][2], Cleaners[k][3], CleanedBy(e, k - 1))
Cleaned(e) == CleanedBy(e, Len(Cleaners))

\* the identifiers left in the cleaned expression
ResidualNames(e) ==
    LET c == Cleaned(e)
    IN Without(GroupsOf(c, FindIter(ReWord, c, 0), 1), c_keywords)

\* extract_variables_from_expression(expression), before list(set(...)) orders it
extract_variables_from_expression(expression) ==
    LET cut == Find(expression, "//")
        e == IF cut # -1 THEN Upto(expression, cut) ELSE expression
    IN IF expression = "" THEN <<>>
       ELSE Dedup(DerefNames(e) \o CallArgNames(e) \o ArrayNames(e) \o ResidualNames(e))

(***************************************************************************)
(* DataflowAnalyzer.analyze_variables: what one loop iteration finds on a  *)
(* line.  rec: the line gets a LineRecord; reads and writes: the lists as  *)
(* built, repeats included; defs: the <<name, details>> pairs handed to    *)
(* add_variable_definition, in call order.                                 *)
(***************************************************************************)
NoRecord ==
    [rec |-> FALSE, lead |-> <<>>, expr |-> "", writes |-> <<>>, operation |-> "", defs |-> <<>>]

\* lead: the reads appended before the extractor runs; expr: the text handed to it
Found(lead, expr, writes, operation, defs) ==
    [rec |-> TRUE, lead |-> lead, expr |-> expr, writes |-> writes,
     operation |-> operation, defs |-> defs]

\* line.split('=', 1)[1] if '=' in line else ""
assignment_part(line) == IF Contains(line, "=") THEN AfterFirst(line, "=") ELSE ""

\* the patterns analyze_variables searches a line for
LinePatterns ==
    [FuncDef |-> ReFuncDef, DerefAssign |-> ReDerefAssign, PtrType |-> RePtrType,
     DeclInit |-> ReDeclInit, DeclList |-> ReDeclList, TypeStar |-> ReTypeStar,
     Assign |-> ReAssign, Control |-> ReControl, Call |-> ReCall]

\* re.search of every pattern in the line
Hits(line) == [n \in DOMAIN LinePatterns |-> Search(LinePatterns[n], line)]

\* faulty variant of DerefAssignRule: the definition is registered for the pointer
DerefAssignRuleOnPointer(line, ptr_name) ==
    Found(<<ptr_name>>, assignment_part(line), <<ptr_name>>,
          "Pointer dereference assignment: *" \o ptr_name \o " = value",
          <<<<ptr_name, "Pointer dereference assignment: *" \o ptr_name \o " = value">>>>)

\* rule: pointer dereference assignment *ptr = value
DerefAssignRule(line, ptr_name) ==
    Found(<<ptr_name>>, assignment_part(line), <<"*" \o ptr_name>>,
          "Pointer dereference assignment: *" \o ptr_name \o " = value",
          <<<<"*" \o ptr_name, "Pointer dereference assignment: *" \o ptr_name \o " = value">>>>)

\* rule: declaration with initializer
DeclInitRule(line, var_name) ==
    Found(<<>>, assignment_part(line), <<var_name>>,
          "Declaration and assignment of " \o var_name,
          <<<<var_name, "Declaration and assignment of " \o var_name>>>>)

\* rule: declaration list without initializer; var_names are the names found after
\* the type, without repeats
DeclListRule(var_names, ptr_str) ==
    Found(<<>>, "", var_names,
          IF Len(var_names) = 0 THEN ""
          ELSE "Declaration of " \o var_names[Len(var_names)] \o ptr_str,
          [j \in 1..Len(var_names) |->
              <<var_names[j], "Declaration of " \o var_names[j] \o ptr_str>>])

\* the names followed by , or ; in the text after the type
DeclaredNames(remaining) == Dedup(GroupsOf(remaining, FindIter(ReNameSep, remaining, 0), 1))

\* rule: plain assignment var = value
AssignRule(line, var_name) ==
    Found(<<>>, assignment_part(line), <<var_name>>, "Assignment to " \o var_name,
          <<<<var_name, "Assignment to " \o var_name>>>>)

\* rule: control header if|while|for (
ControlRule(line, control_type, paren_start, paren_end) ==
    Found(<<>>,
          IF paren_start # -1 /\ paren_end # -1
          THEN SubSeq(line, paren_start + 2, paren_end) ELSE "",
          <<>>, "Control flow: " \o control_type \o " statement", <<>>)

\* rule: call statement, with the memory allocation special case; assign_match is
\* the search of an assignment target before the call
CallRule(line, func_name, paren_start, paren_end, assign_match) ==
    IF func_name \in {"malloc", "calloc", "realloc"} /\ Contains(line, "=") /\ assign_match.ok
    THEN Found(<<>>,
               IF paren_start # -1 /\ paren_end # -1
               THEN SubSeq(line, paren_start + 2, paren_end) ELSE "",
               <<Group(line, assign_match, 1)>>,
               "Memory allocation: " \o Group(line, assign_match, 1) \o " = " \o func_name \o "(...)",
               <<<<Group(line, assign_match, 1),
                   "Memory allocation: " \o Group(line, assign_match, 1) \o " = "
                   \o func_name \o "(...)">>>>)
    ELSE Found(<<>>,
               IF paren_start # -1 /\ paren_end # -1
               THEN SubSeq(line, paren_start + 2, paren_end) ELSE "",
               <<>>, "Function call: " \o func_name \o "()", <<>>)

\* rule: return statement
ReturnRule(line) == Found(<<>>, AfterFirst(line, "return"), <<>>, "Return statement", <<>>)

\* faulty variant of SelectRule: the call rule is tried before the control rule
SelectRuleCallFirst(line, line_stripped, h) ==
    IF line_stripped = "" \/ StartsWith(line_stripped, "//") \/ StartsWith(line_stripped, "#")
    THEN NoRecord
    ELSE IF h.FuncDef.ok THEN NoRecord
    ELSE IF h.DerefAssign.ok /\ ~Contains(line, "==") /\ ~h.PtrType.ok
         THEN DerefAssignRule(line, Group(line, h.DerefAssign, 1))
    ELSE IF h.DeclInit.ok THEN DeclInitRule(line, Group(line, h.DeclInit, 2))
    ELSE IF h.DeclList.ok
         THEN DeclListRule(DeclaredNames(From(line, h.TypeStar.e)),
                           IF Group(line, h.TypeStar, 2) = "*" THEN " pointer" ELSE "")
    ELSE IF h.Assign.ok /\ ~Contains(line, "==") /\ ~Contains(line, "*")
         THEN AssignRule(line, Group(line, h.Assign, 1))
    ELSE IF h.Call.ok
         THEN CallRule(line, Group(line, h.Call, 1), Find(line, "("), RFind(line, ")"),
                       Search(ReTarget, Upto(line, Find(line, "("))))
    ELSE IF h.Control.ok
         THEN ControlRule(line, Group(line, h.Control, 1), Find(line, "("), Find(line, ")"))
    ELSE IF Contains(line, "return") THEN ReturnRule(line)
    ELSE Found(<<>>, "", <<>>, "", <<>>)

\* the rules in the order analyze_variables tries them: the first that matches;
\* h holds the searches of the line
SelectRule(line, line_stripped, h) ==
    IF line_stripped = "" \/ StartsWith(line_stripped, "//") \/ StartsWith(line_stripped, "#")
    THEN NoRecord
    ELSE IF h.FuncDef.ok THEN NoRecord
    ELSE IF h.DerefAssign.ok /\ ~Contains(line, "==") /\ ~h.PtrType.ok
         THEN DerefAssignRule(line, Group(line, h.DerefAssign, 1))
    ELSE IF h.DeclInit.ok THEN DeclInitRule(line, Group(line, h.DeclInit, 2))
    ELSE IF h.DeclList.ok
         THEN DeclListRule(DeclaredNames(From(line, h.TypeStar.e)),
                           IF Group(line, h.TypeStar, 2) = "*" THEN " pointer" ELSE "")
    ELSE IF h.Assign.ok /\ ~Contains(line, "==") /\ ~Contains(line, "*")
         THEN AssignRule(line, Group(line, h.Assign, 1))
    ELSE IF h.Control.ok
         THEN ControlRule(line, Group(line, h.Control, 1), Find(line, "("), Find(line, ")"))
    ELSE IF h.Call.ok
         THEN CallRule(line, Group(line, h.Call, 1), Find(line, "("), RFind(line, ")"),
                       Search(ReTarget, Upto(line, Find(line, "("))))
    ELSE IF Contains(line, "return") THEN ReturnRule(line)
    ELSE Found(<<>>, "", <<>>, "", <<>>)

\* the reads of the selected rule: its leading reads, then what the extractor finds
WithReads(rule) ==
    [rec |-> rule.rec, reads |-> rule.lead \o extract_variables_from_expression(rule.expr),
     writes |-> rule.writes, operation |-> rule.operation, defs |-> rule.defs]

ClassifyLine(line) == WithReads(SelectRule(line, Strip(line), Hits(line)))

(***************************************************************************)
(* The tables of DataflowAnalyzer and the functions that fill them.        *)
(***************************************************************************)
\* the terminal sentinel of the operation chain (Python's None)
None == -1

\* str(n) for a natural number n
RECURSIVE Str(_)
Str(n) == IF n < 10 THEN SubSeq("0123456789", n + 1, n + 1)
          ELSE Str(n \div 10) \o SubSeq("0123456789", (n % 10) + 1, (n % 10) + 1)

\* the k-th order of the elements of xs: the iteration order of a set of strings
\* is fixed by the hash seed of the interpreter process
RECURSIVE PermK(_, _)
PermK(xs, k) ==
    IF Len(xs) <= 1 THEN xs
    ELSE LET j == (k % Len(xs)) + 1
         IN <<xs[j]>> \o PermK(SubSeq(xs, 1, j - 1) \o SubSeq(xs, j + 1, Len(xs)),
                                k \div Len(xs))

\* list(set(xs)) in a process whose hash seed is seed
ListOfSet(xs, seed) == PermK(Dedup(xs), seed)

\* add_variable_definition keeping only the most recent definition
add_variable_definition_latest(table, var_name, line_num, details) ==
    LET t == IF var_name \in DOMAIN table THEN table
             ELSE table @@ (var_name :> [definitions |-> <<>>, uses |-> <<>>])
    IN [t EXCEPT ![var_name].definitions = <<<<line_num, details>>>>]

\* add_variable_definition(var_name, line_num, details)
add_variable_definition(table, var_name, line_num, details) ==
    LET t == IF var_name \in DOMAIN table THEN table
             ELSE table @@ (var_name :> [definitions |-> <<>>, uses |-> <<>>])
    IN [t EXCEPT ![var_name].definitions = Append(@, <<line_num, details>>)]

\* add_variable_use(var_name, line_num, details)
add_variable_use(table, var_name, line_num, details) ==
    LET t == IF var_name \in DOMAIN table THEN table
             ELSE table @@ (var_name :> [definitions |-> <<>>, uses |-> <<>>])
    IN [t EXCEPT ![var_name].uses = Append(@, <<line_num, details>>)]

\* the definitions a line registers, in call order
RECURSIVE AddDefinitions(_, _, _)
AddDefinitions(table, defs, line_num) ==
    IF Len(defs) = 0 THEN table
    ELSE AddDefinitions(add_variable_definition(table, defs[1][1], line_num, defs[1][2]),
                        Tail(defs), line_num)

\* for var in reads: add_variable_use(var, i, "Used in: " + operation)
RECURSIVE AddUses(_, _, _, _)
AddUses(table, reads, line_num, details) ==
    IF Len(reads) = 0 THEN table
    ELSE AddUses(add_variable_use(table, reads[1], line_num, details),
                 Tail(reads), line_num, details)

\* the LineRecord stored for a classified line
LineRecord(r, seed) ==
    [reads |-> ListOfSet(r.reads, seed), writes |-> ListOfSet(r.writes, seed),
     operation |-> r.operation]

\* the keys of a table keyed by line numbers, ascending
RECURSIVE SortedKeys(_)
SortedKeys(keys) ==
    IF keys = {} THEN <<>>
    ELSE LET m == CHOOSE k \in keys : \A j \in keys : k <= j
         IN <<m>> \o SortedKeys(keys \ {m})

\* faulty variant of DepsOfReads: the test read_var != written_var is missing
RECURSIVE DepsOfReadsWithSelf(_, _, _)
DepsOfReadsWithSelf(deps, written_var, reads) ==
    IF Len(reads) = 0 THEN deps
    ELSE DepsOfReadsWithSelf(IF reads[1] \notin Elems(deps[written_var])
                             THEN [deps EXCEPT ![written_var] = Append(@, reads[1])]
                             ELSE deps,
                             written_var, Tail(reads))

\* build_dependencies: the loops over lines, written variables and read variables
RECURSIVE DepsOfReads(_, _, _)
DepsOfReads(deps, written_var, reads) ==
    IF Len(reads) = 0 THEN deps
    ELSE LET read_var == reads[1]
             grown == IF read_var # written_var /\ read_var \notin Elems(deps[written_var])
                      THEN [deps EXCEPT ![written_var] = Append(@, read_var)]
                      ELSE deps
         IN DepsOfReads(grown, written_var, Tail(reads))
RECURSIVE DepsOfWrites(_, _, _)
DepsOfWrites(deps, writes, reads) ==
    IF Len(writes) = 0 THEN deps
    ELSE LET started == IF writes[1] \in DOMAIN deps THEN deps ELSE deps @@ (writes[1] :> <<>>)
         IN DepsOfWrites(DepsOfReads(started, writes[1], reads), Tail(writes), reads)
RECURSIVE DepsOfLines(_, _, _)
DepsOfLines(deps, keys, la) ==
    IF Len(keys) = 0 THEN deps
    ELSE DepsOfLines(DepsOfWrites(deps, la[keys[1]].writes, la[keys[1]].reads), Tail(keys), la)
build_dependencies(la) == DepsOfLines(<<>>, SortedKeys(DOMAIN la), la)

\* faulty variant of LatestDef: def_line <= line_num in place of def_line < line_num
RECURSIVE LatestDefInclusive(_, _, _)
LatestDefInclusive(definitions, line_num, latest_def) ==
    IF Len(definitions) = 0 THEN latest_def
    ELSE LatestDefInclusive(Tail(definitions), line_num,
                            IF definitions[1][1] <= line_num
                               /\ (latest_def = 0 \/ definitions[1][1] > latest_def)
                            THEN definitions[1][1] ELSE latest_def)

\* the latest definition line before line_num, 0 when there is none (line numbers
\* start at 1, so the test `if latest_def:` fails exactly for None)
RECURSIVE LatestDef(_, _, _)
LatestDef(definitions, line_num, latest_def) ==
    IF Len(definitions) = 0 THEN latest_def
    ELSE LET def_line == definitions[1][1]
         IN LatestDef(Tail(definitions), line_num,
                      IF def_line < line_num /\ (latest_def = 0 \/ def_line > latest_def)
                      THEN def_line ELSE latest_def)

\* the reaching list of one line
RECURSIVE ReachingOf(_, _, _)
ReachingOf(reads, line_num, table) ==
    IF Len(reads) = 0 THEN <<>>
    ELSE LET read_var == reads[1]
             latest_def == IF read_var \in DOMAIN table
                           THEN LatestDef(table[read_var].definitions, line_num, 0) ELSE 0
         IN (IF latest_def # 0
             THEN <<"Line " \o Str(latest_def) \o " (defines " \o read_var \o ")">>
             ELSE <<>>)
            \o ReachingOf(Tail(reads), line_num, table)

\* compute_reaching_definitions
compute_reaching_definitions(la, table) ==
    [line_num \in DOMAIN la |-> ReachingOf(la[line_num].reads, line_num, table)]

(***************************************************************************)
(* DataflowAnalyzer.build_operation_sequence.                              *)
(***************************************************************************)
Op(operation_id, variable_name, operation, line_number, details) ==
    [operation_id |-> operation_id, variable_name |-> variable_name,
     operation |-> operation, line_number |-> line_number, details |-> details,
     next |-> operation_id + 1]

\* the name freed on a line: 'free(' in line and the match of the free pattern
FreedOn(line) ==
    LET free_match == Search(ReFree, line)
    IN IF Contains(line, "free(") /\ free_match.ok THEN <<Group(line, free_match, 1)>> ELSE <<>>

(***************************************************************************)
(* The source texts analysed: every text of at most MaxLines lines of each  *)
(* catalogue, the scenario of the end-to-end test and a few longer texts.  *)
(***************************************************************************)
MaxLines == 3

Catalogue ==
    {"int x = 1;", "x = x + a;", "int a, p;", "*p = *p + x;", "free(p);",
     "if (x > a) {", "}", "void f(int *p) { free(p); }"}

Scenario == <<"int a = 10;", "int b = 5;", "if (a > b) {", "    int sum = a + b;", "}">>

Headers == <<"#include <stdio.h>", "", "// free(p);", "int main() {", "int x;", "return x;">>

Sum == <<"int a = 10;", "int b = 5;", "int sum = a + b;">>

Sizes == <<"int n = sizeof(long);", "p = malloc(n * sizeof(long));">>

Release == <<"int q = 1;", "q = p; free(p);", "free(q); free(p);">>

\* lines that exercise the rules of the block partitioner
BlockCatalogue == {"if (x)", "{", "x = 1;", "}", "else {", "else", "return x;"}

Braces == <<"if (a > b)", "{", "a = b;", "}", "return a;", "", "// end", "}">>

OneLineElse == <<"if (x)", "x = 1;", "else { x = 2; }", "x = 3;", "return x;", "}">>

\* comment lines that hold the keywords of the block partitioner
Commented == <<"// if (x) {", "x = 1;", "// note", "x = x + a;", "// return x;">>

\* texts with loops: alone, with a body, nested, one after the other, in main
NestedLoops == <<"while (a) {", "while (b) {", "if (x)", "return x;">>

LoopInMain ==
    <<"int main() {", "for (i = 0; i < n; i++) {", "if (x > a) {", "x = 1;", "} else {",
      "x = x + a;", "}", "}", "return x;", "}">>

LoopTexts ==
    {<<"while (a) {">>,
     <<"while (a) {", "x = 1;">>,
     <<"while (a) {", "x = 1;", "}", "return x;">>,
     <<"while (a) {", "x = 1;", "}", "", "x = 1;">>,
     <<"while (a) {", "for (i = 0; i < n; i++) {", "x = 1;", "}", "x = x + a;", "}",
       "return x;">>,
     <<"while (a) {", "x = 1;", "}", "while (b) {", "x = 1;", "}", "return x;">>,
     NestedLoops, LoopInMain}

Inputs ==
    UNION {[1..n -> Catalogue] : n \in 0..MaxLines}
    \cup UNION {[1..n -> BlockCatalogue] : n \in 0..MaxLines}
    \cup {Scenario, Headers, Sum, Sizes, Release, Braces, OneLineElse, Commented}
    \cup LoopTexts

AllLines ==
    Catalogue \cup BlockCatalogue \cup Elems(Scenario) \cup Elems(Headers) \cup Elems(Sum)
    \cup Elems(Sizes) \cup Elems(Release) \cup Elems(Braces) \cup Elems(OneLineElse)
    \cup Elems(Commented) \cup UNION {Elems(text) : text \in LoopTexts}

\* what analyze_variables and build_operation_sequence find in each line text
Classified == [line \in AllLines |-> ClassifyLine(line)]
Freed == [line \in AllLines |-> FreedOn(line)]

\* one append to the chain: operations.append(op); operation_id += 1.
\* st = [ops, id, defs]: operations, operation_id and variable_definitions
Emit(st, variable_name, operation, line_number, details) ==
    [st EXCEPT !.ops = Append(@, Op(st.id, variable_name, operation, line_number, details)),
               !.id = @ + 1]

\* the KILL of the recorded definition of var, if there is one
KillPrevious(st, var, line_num) ==
    IF var \in DOMAIN st.defs
    THEN Emit(st, var, "KILL", line_num,
              "Variable '" \o var \o "' redefined, killing previous definition from line "
              \o Str(st.defs[var]))
    ELSE st

\* faulty variant of Record: only the first definition of a variable is remembered
RecordOnce(st, var, line_num) ==
    [st EXCEPT !.defs = IF var \in DOMAIN @ THEN @ ELSE @ @@ (var :> line_num)]

\* variable_definitions[var] = line_num
Record(st, var, line_num) ==
    [st EXCEPT !.defs = IF var \in DOMAIN @ THEN [@ EXCEPT ![var] = line_num]
                        ELSE @ @@ (var :> line_num)]

\* the WRITE operations of a line, each after the KILL of a recorded definition
RECURSIVE WriteOps(_, _, _, _)
WriteOps(st, writes, line_num, details) ==
    IF Len(writes) = 0 THEN st
    ELSE LET var == writes[1]
             written == Emit(KillPrevious(st, var, line_num), var, "WRITE", line_num, details)
         IN WriteOps(Record(written, var, line_num), Tail(writes), line_num, details)

\* the READ operations of a line
RECURSIVE ReadOps(_, _, _, _)
ReadOps(st, reads, line_num, details) ==
    IF Len(reads) = 0 THEN st
    ELSE ReadOps(Emit(st, reads[1], "READ", line_num, details), Tail(reads), line_num, details)

\* faulty variant of FreeOps: the freed name is dropped from variable_definitions
FreeOpsForgets(st, lines, line_num) ==
    IF line_num <= Len(lines) /\ Len(Freed[lines[line_num]]) > 0
    THEN LET freed_var == Freed[lines[line_num]][1]
             killed == Emit(st, freed_var, "KILL", line_num,
                            "Memory freed for variable '" \o freed_var \o "'")
         IN [killed EXCEPT !.defs = [v \in (DOMAIN @) \ {freed_var} |-> @[v]]]
    ELSE st

\* the explicit KILL of a line that frees a name
FreeOps(st, lines, line_num) ==
    IF line_num <= Len(lines) /\ Len(Freed[lines[line_num]]) > 0
    THEN LET freed_var == Freed[lines[line_num]][1]
         IN Emit(st, freed_var, "KILL", line_num,
                 "Memory freed for variable '" \o freed_var \o "'")
    ELSE st

\* faulty variant of OpsOfLine: the READ operations are emitted before the WRITEs
OpsOfLineReadsFirst(st, line_num, la, lines) ==
    LET analysis == la[line_num]
        r == ReadOps(st, analysis.reads, line_num, analysis.operation)
        w == WriteOps(r, analysis.writes, line_num, analysis.operation)
    IN FreeOps(w, lines, line_num)

\* one iteration of the loop over sorted(line_analysis.keys())
OpsOfLine(st, line_num, la, lines) ==
    LET analysis == la[line_num]
        w == WriteOps(st, analysis.writes, line_num, analysis.operation)
        r == ReadOps(w, analysis.reads, line_num, analysis.operation)
    IN FreeOps(r, lines, line_num)

RECURSIVE OpsOfLines(_, _, _, _)
OpsOfLines(st, keys, la, lines) ==
    IF Len(keys) = 0 THEN st.ops
    ELSE OpsOfLines(OpsOfLine(st, keys[1], la, lines), Tail(keys), la, lines)

\* faulty variant of Terminate: the last next pointer is left as it was emitted
Unterminated(ops) == ops

\* operations[-1]["next"] = None
Terminate(ops) == IF Len(ops) > 0 THEN [ops EXCEPT ![Len(ops)].next = None] ELSE ops

build_operation_sequence(la, lines) ==
    Terminate(OpsOfLines([ops |-> <<>>, id |-> 0, defs |-> <<>>],
                         SortedKeys(DOMAIN la), la, lines))

(***************************************************************************)
(* TTAGraphAnalyzer.create_logical_blocks.  Pass 1 fills two locals         *)
(* (control_structures, brace_stack) that nothing reads afterwards; the     *)
(* blocks come from pass 2, modelled one iteration of its cursor loop at a  *)
(* time.                                                                    *)
(***************************************************************************)
\* \b(types)\s+main\s*\(
ReMain == Cat(<<WB, ReTypes, ReS1, Lit("main"), ReS0, Lit("(")>>)
\* \b(for|while)\s*\(
ReLoop == Cat(<<WB, Alt(<<Lit("for"), Lit("while")>>), ReS0, Lit("(")>>)
\* \bif\s*\(
ReIf == Cat(<<WB, Lit("if"), ReS0, Lit("(")>>)
\* \belse\b
ReElse == Cat(<<WB, Lit("else"), WB>>)
\* \b(if|for|while|else|return)\b
ReStop == Cat(<<WB, Alt(<<Lit("if"), Lit("for"), Lit("while"), Lit("else"), Lit("return")>>),
                WB>>)

\* the patterns pass 2 searches; the last one is searched in the stripped line
BlockPatterns == [Main |-> ReMain, Loop |-> ReLoop, If |-> ReIf, Else |-> ReElse, Stop |-> ReStop]
BlockHits(line) ==
    [n \in DOMAIN BlockPatterns |->
        Search(BlockPatterns[n], IF n = "Stop" THEN Strip(line) ELSE line).ok]

\* any(keyword in text for keyword in ['if', 'for', 'while', 'else'])
HasKeyword(text) ==
    Contains(text, "if") \/ Contains(text, "for") \/ Contains(text, "while")
        \/ Contains(text, "else")

\* everything pass 2 and the arc builder test on a line
ShapeOf(line, line_stripped, h) ==
    [stripped |-> line_stripped,
     blank |-> line_stripped = "",
     hash |-> StartsWith(line_stripped, "#"),
     comment |-> StartsWith(line_stripped, "//"),
     main |-> h.Main, loop |-> h.Loop, if |-> h.If, else |-> h.Else, stop |-> h.Stop,
     return |-> Contains(line, "return"),
     has_else |-> Contains(line, "else"),
     keyword |-> HasKeyword(line_stripped),
     open |-> Contains(line, "{"), close |-> Contains(line, "}"),
     opens |-> Count(line, "{"), closes |-> Count(line, "}")]

Shape == [line \in AllLines |-> ShapeOf(line, Strip(line), BlockHits(line))]

\* l.strip() and not l.strip().startswith('//')
Meaningful(line) == ~Shape[line].blank /\ ~Shape[line].comment
NonBlank(line) == ~Shape[line].blank

\* the code preview of _create_block
Preview(ls) ==
    LET meaningful_lines == SelectSeq(ls, Meaningful)
    IN IF Len(meaningful_lines) > 0
       THEN LET preview == Shape[meaningful_lines[1]].stripped
            IN IF Len(preview) > 50 THEN SubSeq(preview, 1, 47) \o "..." ELSE preview
       ELSE "{ ... }"

\* _create_block: the block list with the new block appended
_create_block(bs, id, start_line, end_line, ls, block_type) ==
    Append(bs, [block_id |-> id, node_type |-> block_type, start_line |-> start_line,
                end_line |-> end_line, lines |-> ls, code_preview |-> Preview(ls),
                operation_sequence |-> <<>>])

\* the state of pass 2: cursor i (0-based), block list, next block id
Pass2(i, bs, id) == [i |-> i, blocks |-> bs, block_id |-> id]

\* a single-line START, LOOP or XOR block
HeaderStep(ls, i, bs, id, block_type) ==
    Pass2(i + 1, _create_block(bs, id, i + 1, i + 1, <<ls[i + 1]>>, block_type), id + 1)

\* faulty variant of ClosingBrace: a lone } is taken in even when a later line
\* holds a } too
RECURSIVE ClosingBraceAny(_, _)
ClosingBraceAny(ls, j) ==
    IF j >= Len(ls) THEN -1
    ELSE IF Shape[ls[j + 1]].stripped = "}" THEN j
    ELSE IF ~Shape[ls[j + 1]].blank /\ ~Shape[ls[j + 1]].comment THEN -1
    ELSE ClosingBraceAny(ls, j + 1)

\* the look-ahead of the return rule from index j: the index of the lone } that
\* closes the function when no later line holds a }, else -1
RECURSIVE ClosingBrace(_, _)
ClosingBrace(ls, j) ==
    IF j >= Len(ls) THEN -1
    ELSE IF Shape[ls[j + 1]].stripped = "}"
         THEN IF \A k \in (j + 1)..(Len(ls) - 1) : ~Shape[ls[k + 1]].close THEN j ELSE -1
    ELSE IF ~Shape[ls[j + 1]].blank /\ ~Shape[ls[j + 1]].comment THEN -1
    ELSE ClosingBrace(ls, j + 1)

\* faulty variant of ReturnStep: without a closing brace to take in, the cursor
\* stays on the return line
ReturnStepStays(ls, i, bs, id, j) ==
    IF j # -1
    THEN Pass2(j + 1, _create_block(bs, id, i + 1, j + 1, <<ls[i + 1], ls[j + 1]>>, "END"),
               id + 1)
    ELSE Pass2(i, _create_block(bs, id, i + 1, i + 1, <<ls[i + 1]>>, "END"), id + 1)

\* return rule: an END block, taking in the closing brace at index j when j # -1
ReturnStep(ls, i, bs, id, j) ==
    IF j # -1
    THEN Pass2(j + 1, _create_block(bs, id, i + 1, j + 1, <<ls[i + 1], ls[j + 1]>>, "END"),
               id + 1)
    ELSE Pass2(i + 1, _create_block(bs, id, i + 1, i + 1, <<ls[i + 1]>>, "END"), id + 1)

\* else { : the index after the lines collected from i on while brace_count > 0
RECURSIVE ElseEnd(_, _, _)
ElseEnd(ls, i, brace_count) ==
    IF i < Len(ls) /\ brace_count > 0
    THEN ElseEnd(ls, i + 1, brace_count + Shape[ls[i + 1]].opens - Shape[ls[i + 1]].closes)
    ELSE i

\* else rule with { on the line; stop is the index after the collected lines
ElseBraceStep(ls, i, bs, id, stop) ==
    IF stop - i > 2
    THEN Pass2(stop, _create_block(bs, id, i + 1, i + 1 + (stop - i) - 1,
                                   SubSeq(ls, i + 1, stop), "ACTIVITY"), id + 1)
    ELSE Pass2(stop, bs, id)

\* else rule without { : the else line and the next line, when there is one
ElseLineStep(ls, i, bs, id) ==
    IF i + 1 < Len(ls)
    THEN Pass2(i + 2, _create_block(bs, id, i + 1, i + 1 + 2 - 1,
                                    <<ls[i + 1], ls[i + 2]>>, "ACTIVITY"), id + 1)
    ELSE Pass2(i + 1, _create_block(bs, id, i + 1, i + 1 + 1 - 1, <<ls[i + 1]>>, "ACTIVITY"),
               id + 1)

\* bare { rule: the index where the collection that starts at i stops
RECURSIVE BraceEnd(_, _)
BraceEnd(ls, i) ==
    IF i < Len(ls) /\ ~(Shape[ls[i + 1]].stop \/ Shape[ls[i + 1]].close)
    THEN BraceEnd(ls, i + 1)
    ELSE i

\* bare { rule; block_lines are the non-blank lines after the brace line up to stop
BraceStep(ls, i, bs, id, stop, block_lines) ==
    IF Len(block_lines) > 0 /\ Len(SelectSeq(block_lines, Meaningful)) > 0
    THEN Pass2(stop, _create_block(bs, id, i + 1, i + 1 + Len(block_lines) - 1, block_lines,
                                   "ACTIVITY"), id + 1)
    ELSE Pass2(stop, bs, id)

\* regular statements: the index where the collection that starts at i stops
RECURSIVE RegularEnd(_, _)
RegularEnd(ls, i) ==
    IF i < Len(ls)
       /\ ~(\/ Shape[ls[i + 1]].blank
            \/ Shape[ls[i + 1]].hash
            \/ Shape[ls[i + 1]].stop
            \/ Shape[ls[i + 1]].stripped = "}"
            \/ (Shape[ls[i + 1]].close /\ ~Shape[ls[i + 1]].open))
    THEN RegularEnd(ls, i + 1)
    ELSE i

\* regular statements rule; stop is the index after the collected lines
RegularStep(ls, i, bs, id, stop) ==
    IF Len(SelectSeq(SubSeq(ls, i + 1, stop), Meaningful)) > 0
    THEN Pass2(stop, _create_block(bs, id, i + 1, i + 1 + (stop - i) - 1,
                                   SubSeq(ls, i + 1, stop), "ACTIVITY"), id + 1)
    ELSE Pass2(stop, bs, id)

\* one iteration of the cursor loop of pass 2 at index i; sh is the shape of line i
Pass2Step(ls, i, bs, id, sh) ==
    IF sh.blank \/ sh.hash THEN Pass2(i + 1, bs, id)
    ELSE IF sh.main THEN HeaderStep(ls, i, bs, id, "START")
    ELSE IF sh.loop THEN HeaderStep(ls, i, bs, id, "LOOP")
    ELSE IF sh.if THEN HeaderStep(ls, i, bs, id, "XOR")
    ELSE IF sh.return THEN ReturnStep(ls, i, bs, id, ClosingBrace(ls, i + 1))
    ELSE IF sh.else
         THEN IF sh.open THEN ElseBraceStep(ls, i, bs, id, ElseEnd(ls, i + 1, 1))
              ELSE ElseLineStep(ls, i, bs, id)
    ELSE IF sh.open /\ i > 0 /\ Shape[ls[i]].keyword
         THEN BraceStep(ls, i, bs, id, BraceEnd(ls, i + 1),
                        SelectSeq(SubSeq(ls, i + 2, BraceEnd(ls, i + 1)), NonBlank))
    ELSE IF ~sh.comment THEN RegularStep(ls, i, bs, id, RegularEnd(ls, i + 1))
    ELSE Pass2(i + 1, bs, id)

\* create_logical_blocks as a whole, from the state st on
RECURSIVE create_logical_blocks(_, _)
create_logical_blocks(ls, st) ==
    IF st.i < Len(ls)
    THEN create_logical_blocks(ls, Pass2Step(ls, st.i, st.blocks, st.block_id,
                                             Shape[ls[st.i + 1]]))
    ELSE st.blocks

(***************************************************************************)
(* TTAGraphAnalyzer.create_control_flow_arcs and its helpers.  Block        *)
(* indices are 0-based as in the source: block k is bs[k + 1].              *)
(***************************************************************************)
Arc(from, to, arc_type, description) ==
    [from |-> from, to |-> to, arc_type |-> arc_type, description |-> description]

Max(a, b) == IF a >= b THEN a ELSE b

\* range(block_idx - 1, max(0, block_idx - 3), -1) holds an XOR block
_is_branch_block(bs, block_idx) ==
    \E k \in (Max(0, block_idx - 3) + 1)..(block_idx - 1) : bs[k + 1].node_type = "XOR"

\* _find_merge_point without the test of the branch classification: the block
\* that follows, whatever it is
_find_merge_point_next(bs, branch_idx) ==
    IF branch_idx + 1 < Len(bs) THEN branch_idx + 1 ELSE None

\* the first block after branch_idx that is a control block or an ACTIVITY outside
\* a branch, None when there is none
_find_merge_point(bs, branch_idx) ==
    LET hits == {k \in (branch_idx + 1)..(Len(bs) - 1) :
                    \/ bs[k + 1].node_type \in {"LOOP", "XOR", "END"}
                    \/ (bs[k + 1].node_type = "ACTIVITY" /\ ~_is_branch_block(bs, k))}
    IN IF hits = {} THEN None ELSE CHOOSE k \in hits : \A j \in hits : k <= j

\* any('else' in line for line in block['lines'])
HasElse(block) == \E k \in 1..Len(block.lines) : Shape[block.lines[k]].has_else

\* _find_xor_branches taking the second ACTIVITY block as the false branch only
\* when its lines mention else
_find_xor_branches_else(bs, xor_idx) ==
    (IF xor_idx + 1 < Len(bs) THEN <<xor_idx + 1>> ELSE <<>>)
    \o (IF /\ xor_idx + 1 < Len(bs)
           /\ bs[xor_idx + 2].node_type = "ACTIVITY"
           /\ xor_idx + 2 < Len(bs)
           /\ bs[xor_idx + 3].node_type = "ACTIVITY"
           /\ HasElse(bs[xor_idx + 3])
        THEN <<xor_idx + 2>> ELSE <<>>)

\* the list of the true branch and, when found, the false branch
_find_xor_branches(bs, xor_idx) ==
    (IF xor_idx + 1 < Len(bs) THEN <<xor_idx + 1>> ELSE <<>>)
    \o (IF /\ xor_idx + 1 < Len(bs)
           /\ bs[xor_idx + 2].node_type = "ACTIVITY"
           /\ xor_idx + 2 < Len(bs)
           /\ bs[xor_idx + 3].node_type = "ACTIVITY"
           /\ (HasElse(bs[xor_idx + 3]) \/ (xor_idx + 1) + 1 = xor_idx + 2)
        THEN <<xor_idx + 2>> ELSE <<>>)

\* a line of the block holds a }
_is_loop_end(bs, block_idx) ==
    /\ block_idx < Len(bs)
    /\ \E k \in 1..Len(bs[block_idx + 1].lines) : Shape[bs[block_idx + 1].lines[k]].close

\* the scan of _find_loop_exit testing for depth 0 before it counts a LOOP block
RECURSIVE ExitScanTestFirst(_, _, _, _)
ExitScanTestFirst(bs, loop_idx, k, loop_depth) ==
    IF k >= Len(bs) THEN None
    ELSE IF loop_depth = 0 /\ (\/ bs[k + 1].node_type \in {"XOR", "LOOP", "END"}
                               \/ (bs[k + 1].node_type = "ACTIVITY" /\ k > loop_idx + 2))
    THEN k
    ELSE LET depth == IF bs[k + 1].node_type = "LOOP" THEN loop_depth + 1 ELSE loop_depth
         IN ExitScanTestFirst(bs, loop_idx, k + 1,
                              IF depth > 0 /\ _is_loop_end(bs, k) THEN depth - 1 ELSE depth)

\* the scan of _find_loop_exit taking an ACTIVITY block one position earlier
RECURSIVE ExitScanNear(_, _, _, _)
ExitScanNear(bs, loop_idx, k, loop_depth) ==
    IF k >= Len(bs) THEN None
    ELSE LET depth == IF bs[k + 1].node_type = "LOOP" THEN loop_depth + 1 ELSE loop_depth
         IN IF depth = 0 /\ (\/ bs[k + 1].node_type \in {"XOR", "LOOP", "END"}
                             \/ (bs[k + 1].node_type = "ACTIVITY" /\ k > loop_idx + 1))
            THEN k
            ELSE ExitScanNear(bs, loop_idx, k + 1,
                              IF depth > 0 /\ _is_loop_end(bs, k) THEN depth - 1 ELSE depth)

\* the first loop of _find_loop_exit from index k on with the nesting depth
\* loop_depth: the exit index, or None when the scan reaches the end
RECURSIVE ExitScan(_, _, _, _)
ExitScan(bs, loop_idx, k, loop_depth) ==
    IF k >= Len(bs) THEN None
    ELSE LET depth == IF bs[k + 1].node_type = "LOOP" THEN loop_depth + 1 ELSE loop_depth
         IN IF depth = 0 /\ (\/ bs[k + 1].node_type \in {"XOR", "LOOP", "END"}
                             \/ (bs[k + 1].node_type = "ACTIVITY" /\ k > loop_idx + 2))
            THEN k
            ELSE ExitScan(bs, loop_idx, k + 1,
                          IF depth > 0 /\ _is_loop_end(bs, k) THEN depth - 1 ELSE depth)

\* the second loop of _find_loop_exit: the first END block after the loop
FirstEnd(bs, loop_idx) ==
    LET ends == {k \in (loop_idx + 1)..(Len(bs) - 1) : bs[k + 1].node_type = "END"}
    IN IF ends = {} THEN None ELSE CHOOSE k \in ends : \A j \in ends : k <= j

\* scanned is the result of the first loop
ExitOr(scanned, bs, loop_idx) == IF scanned # None THEN scanned ELSE FirstEnd(bs, loop_idx)
_find_loop_exit(bs, loop_idx) == ExitOr(ExitScan(bs, loop_idx, loop_idx + 1, 0), bs, loop_idx)

\* max(branches)
MaxOf(xs) == CHOOSE x \in Elems(xs) : \A y \in Elems(xs) : x >= y

\* the loop of _find_loop_body_end from index k on
RECURSIVE BodyScan(_, _, _, _)
BodyScan(bs, k, loop_exit, last_activity) ==
    IF k >= Len(bs) \/ (loop_exit # None /\ k >= loop_exit) THEN last_activity
    ELSE BodyScan(bs, k + 1, loop_exit,
                  IF bs[k + 1].node_type = "ACTIVITY" THEN k
                  ELSE IF bs[k + 1].node_type = "XOR" /\ Len(_find_xor_branches(bs, k)) > 0
                       THEN MaxOf(_find_xor_branches(bs, k))
                  ELSE last_activity)
_find_loop_body_end(bs, loop_idx) ==
    BodyScan(bs, loop_idx + 1, _find_loop_exit(bs, loop_idx), None)

\* the arcs of a LOOP block without the test that a block follows it
LoopArcsUnguarded(bs, k, loop_exit, loop_end) ==
    <<Arc(k, k + 1, "dashed", "Loop true")>>
    \o (IF loop_exit # None THEN <<Arc(k, loop_exit, "dashed", "Loop false")>> ELSE <<>>)
    \o (IF loop_end # None THEN <<Arc(loop_end, k, "dotted", "Loop back")>> ELSE <<>>)

\* the arcs of a LOOP block given its exit and the end of its body
LoopArcs(bs, k, loop_exit, loop_end) ==
    (IF k + 1 < Len(bs) THEN <<Arc(k, k + 1, "dashed", "Loop true")>> ELSE <<>>)
    \o (IF loop_exit # None THEN <<Arc(k, loop_exit, "dashed", "Loop false")>> ELSE <<>>)
    \o (IF loop_end # None THEN <<Arc(loop_end, k, "dotted", "Loop back")>> ELSE <<>>)

\* the arcs of an XOR block given its branches
XorArcs(k, branches) ==
    (IF Len(branches) >= 1 THEN <<Arc(k, branches[1], "dashed", "If true")>> ELSE <<>>)
    \o (IF Len(branches) >= 2 THEN <<Arc(k, branches[2], "dashed", "If false")>> ELSE <<>>)

\* the arcs of a branch ACTIVITY block given its merge point
BranchArcs(k, merge_point) ==
    IF merge_point # None THEN <<Arc(k, merge_point, "solid", "Branch to merge")>> ELSE <<>>

\* one iteration of the loop of create_control_flow_arcs: the arcs appended for
\* block k
ArcsOf(bs, k) ==
    IF bs[k + 1].node_type = "START"
    THEN IF k + 1 < Len(bs) THEN <<Arc(k, k + 1, "solid", "Function entry")>> ELSE <<>>
    ELSE IF bs[k + 1].node_type = "ACTIVITY"
    THEN IF _is_branch_block(bs, k) THEN BranchArcs(k, _find_merge_point(bs, k))
         ELSE IF k + 1 < Len(bs) /\ bs[k + 2].node_type # "END"
              THEN <<Arc(k, k + 1, "solid", "Sequential")>> ELSE <<>>
    ELSE IF bs[k + 1].node_type = "LOOP"
    THEN LoopArcs(bs, k, _find_loop_exit(bs, k), _find_loop_body_end(bs, k))
    ELSE IF bs[k + 1].node_type = "XOR" THEN XorArcs(k, _find_xor_branches(bs, k))
    ELSE <<>>

\* create_control_flow_arcs as a whole, from block k on
RECURSIVE create_control_flow_arcs(_, _)
create_control_flow_arcs(bs, k) ==
    IF k < Len(bs) THEN ArcsOf(bs, k) \o create_control_flow_arcs(bs, k + 1) ELSE <<>>

(***************************************************************************)
(* TTAGraphAnalyzer.assign_operation_sequences.                            *)
(***************************************************************************)
\* assign_operation_sequences without the upper end of the range
BlockOpsFrom(block, ops) ==
    SelectSeq(ops, LAMBDA op : block.start_line <= op.line_number)

\* the operations whose line lies in the block's range, in chain order
BlockOps(block, ops) ==
    SelectSeq(ops, LAMBDA op : block.start_line <= op.line_number
                               /\ op.line_number <= block.end_line)

assign_operation_sequences(bs, ops) ==
    [k \in 1..Len(bs) |-> [bs[k] EXCEPT !.operation_sequence = BlockOps(bs[k], ops)]]

(***************************************************************************)
(* The analysis as analyze_code performs it: DataflowAnalyzer(code),       *)
(* analyze(), then TTAGraphAnalyzer(code, ...).analyze().  The editor can   *)
(* start the analysis again on the same text, in the same interpreter      *)
(* process or after the program was closed and started again.              *)
(***************************************************************************)
VARIABLES
    code,                  \* self.lines
    hashseed,              \* the string hash seed of the interpreter process
    pc,                    \* the function the run is in
    cursor,                \* the index of the loop the run is in
    variables,             \* DataflowAnalyzer.variables
    line_analysis,         \* DataflowAnalyzer.line_analysis
    dependencies,          \* DataflowAnalyzer.dependencies
    reaching_definitions,  \* DataflowAnalyzer.reaching_definitions
    block_id,              \* the block counter of create_logical_blocks
    blocks,                \* TTAGraphAnalyzer.blocks
    arcs,                  \* TTAGraphAnalyzer.arcs
    operations,            \* the chain build_operation_sequence returns
    previous,              \* the results of the analysis before this one, if any
    text_editor,           \* the lines of the text widget
    _analysis_job,         \* self._analysis_job: <<>> while the attribute is not set
    timers,                \* the timers of the event loop: the time left for each id
    events,                \* the number of user events handled so far
    since                  \* the time since the last call of on_text_change began

analysis == <<variables, line_analysis, dependencies, reaching_definitions, block_id,
              blocks, arcs, operations>>
editor == <<text_editor, _analysis_job, timers, events, since>>
vars == <<code, hashseed, pc, cursor, analysis, previous, editor>>

\* self.root.after(1000, self.analyze_code)
Delay == 1000

\* no call of on_text_change so far
Untouched ==
    /\ _analysis_job = <<>>
    /\ timers = <<>>
    /\ events = 0
    /\ since = Delay

HashSeeds == 2

\* what an analysis leaves behind
Results ==
    [variables |-> variables, line_analysis |-> line_analysis, dependencies |-> dependencies,
     reaching_definitions |-> reaching_definitions, operations |-> operations,
     blocks |-> blocks, arcs |-> arcs]

\* the constructors of the two analyzers
Fresh ==
    /\ pc = "analyze_variables"
    /\ cursor = 1
    /\ variables = <<>>
    /\ line_analysis = <<>>
    /\ dependencies = <<>>
    /\ reaching_definitions = <<>>
    /\ block_id = 0
    /\ blocks = <<>>
    /\ arcs = <<>>
    /\ operations = <<>>

\* the same, as the step that starts a further analysis
Begin ==
    /\ pc' = "analyze_variables"
    /\ cursor' = 1
    /\ variables' = <<>>
    /\ line_analysis' = <<>>
    /\ dependencies' = <<>>
    /\ reaching_definitions' = <<>>
    /\ block_id' = 0
    /\ blocks' = <<>>
    /\ arcs' = <<>>
    /\ operations' = <<>>

Init ==
    /\ code \in Inputs
    /\ hashseed \in 0..(HashSeeds - 1)
    /\ previous = <<>>
    /\ Fresh
    /\ text_editor = code
    /\ Untouched

\* one iteration of the loop of analyze_variables, or its end
AnalyzeLine ==
    /\ pc = "analyze_variables"
    /\ IF cursor <= Len(code)
       THEN /\ cursor' = cursor + 1
            /\ pc' = pc
            /\ IF Classified[code[cursor]].rec
               THEN /\ variables' =
                          AddUses(AddDefinitions(variables, Classified[code[cursor]].defs, cursor),
                                  Classified[code[cursor]].reads, cursor,
                                  "Used in: " \o Classified[code[cursor]].operation)
                    /\ line_analysis' =
                          line_analysis
                              @@ (cursor :> LineRecord(Classified[code[cursor]], hashseed))
               ELSE UNCHANGED <<variables, line_analysis>>
       ELSE /\ pc' = "build_dependencies"
            /\ UNCHANGED <<cursor, variables, line_analysis>>
    /\ UNCHANGED <<code, hashseed, dependencies, reaching_definitions, block_id, blocks, arcs,
                   operations, previous>>
    /\ UNCHANGED editor

BuildDependencies ==
    /\ pc = "build_dependencies"
    /\ dependencies' = build_dependencies(line_analysis)
    /\ pc' = "compute_reaching_definitions"
    /\ UNCHANGED <<code, hashseed, cursor, variables, line_analysis, reaching_definitions,
                   block_id, blocks, arcs, operations, previous>>
    /\ UNCHANGED editor

ComputeReachingDefinitions ==
    /\ pc = "compute_reaching_definitions"
    /\ reaching_definitions' = compute_reaching_definitions(line_analysis, variables)
    /\ pc' = "create_logical_blocks"
    /\ cursor' = 0
    /\ UNCHANGED <<code, hashseed, variables, line_analysis, dependencies, block_id, blocks,
                   arcs, operations, previous>>
    /\ UNCHANGED editor

\* one iteration of the cursor loop of pass 2 of create_logical_blocks, or its end
CreateLogicalBlocks ==
    /\ pc = "create_logical_blocks"
    /\ IF cursor < Len(code)
       THEN /\ \E st \in {Pass2Step(code, cursor, blocks, block_id, Shape[code[cursor + 1]])} :
                 /\ cursor' = st.i
                 /\ blocks' = st.blocks
                 /\ block_id' = st.block_id
            /\ pc' = pc
       ELSE /\ pc' = "create_control_flow_arcs"
            /\ cursor' = 0
            /\ UNCHANGED <<block_id, blocks>>
    /\ UNCHANGED <<code, hashseed, variables, line_analysis, dependencies,
                   reaching_definitions, arcs, operations, previous>>
    /\ UNCHANGED editor

\* one iteration of the loop of create_control_flow_arcs, or its end
CreateControlFlowArcs ==
    /\ pc = "create_control_flow_arcs"
    /\ IF cursor < Len(blocks)
       THEN /\ arcs' = arcs \o ArcsOf(blocks, cursor)
            /\ cursor' = cursor + 1
            /\ pc' = pc
       ELSE /\ pc' = "assign_operation_sequences"
            /\ UNCHANGED <<cursor, arcs>>
    /\ UNCHANGED <<code, hashseed, variables, line_analysis, dependencies,
                   reaching_definitions, block_id, blocks, operations, previous>>
    /\ UNCHANGED editor

AssignOperationSequences ==
    /\ pc = "assign_operation_sequences"
    /\ operations' = build_operation_sequence(line_analysis, code)
    /\ blocks' = assign_operation_sequences(blocks, operations')
    /\ pc' = "done"
    /\ UNCHANGED <<code, hashseed, cursor, variables, line_analysis, dependencies,
                   reaching_definitions, block_id, arcs, previous>>
    /\ UNCHANGED editor

\* analyze_code runs again on the unchanged text: fresh analyzers, same process
Reanalyze ==
    /\ pc = "done"
    /\ previous' = <<Results>>
    /\ Begin
    /\ UNCHANGED <<code, hashseed>>
    /\ UNCHANGED editor

\* the program is closed and started again on the same text: fresh analyzers in a
\* new interpreter process with its own string hash seed
Restart ==
    /\ pc = "done"
    /\ previous' = <<Results>>
    /\ hashseed' \in 0..(HashSeeds - 1)
    /\ Begin
    /\ UNCHANGED code
    /\ UNCHANGED editor

Next ==
    \/ AnalyzeLine
    \/ BuildDependencies
    \/ ComputeReachingDefinitions
    \/ CreateLogicalBlocks
    \/ CreateControlFlowArcs
    \/ AssignOperationSequences
    \/ Reanalyze
    \/ Restart

Spec == Init /\ [][Next]_vars

(***************************************************************************)
(* The editor: CSyntaxDirectedEnvironment.on_text_change and analyze_code   *)
(* under the event loop of root.mainloop().  The loop runs one handler at   *)
(* a time, so a handler starts only when no analysis is under way; a timer  *)
(* handler runs no earlier than its delay and as late as the loop gets to   *)
(* it.  Time is counted in steps of Step milliseconds.                      *)
(***************************************************************************)
MaxEvents == 3

\* the grain of the clock
Step == Delay \div 4

Min(a, b) == IF a <= b THEN a ELSE b

\* the texts the widget holds: the first statements of the sample program, the
\* same with the last line deleted, and the empty widget (one empty line)
EditorTexts == {Sum, SubSeq(Sum, 1, 2), <<"">>}

\* a variant of after_cancel that leaves the timer in place
after_cancel_kept(table, id) == table

\* self.root.after_cancel(id): the timer is dropped, an id that is not pending
\* is ignored
after_cancel(table, id) == [j \in DOMAIN table \ {id} |-> table[j]]

\* self.root.after(ms, callback) returning id
after(table, id, ms) == table @@ (id :> ms)

\* analyze_code up to the construction of the analyzers: the text of the widget
\* is read and split into lines, and both analyzers are created anew
AnalyzeCode ==
    /\ code' = text_editor
    /\ previous' = <<Results>>
    /\ Begin

\* a key or mouse event on the text widget: the widget takes the change,
\* on_text_change updates the line numbers, which takes some time, cancels the
\* job of _analysis_job when the attribute is set and schedules a new one
OnTextChange ==
    /\ pc = "done"
    /\ events < MaxEvents
    /\ events' = events + 1
    /\ text_editor' \in EditorTexts
    /\ since' \in {0, Step}
    /\ timers' = after(IF Len(_analysis_job) > 0
                       THEN after_cancel(timers, _analysis_job[1]) ELSE timers,
                       events + 1, Delay)
    /\ _analysis_job' = <<events + 1>>
    /\ UNCHANGED <<code, hashseed, pc, cursor, analysis, previous>>

\* Step milliseconds pass
Tick ==
    /\ timers' = [j \in DOMAIN timers |-> Max(0, timers[j] - Step)]
    /\ since' = Min(Delay, since + Step)
    /\ UNCHANGED <<code, hashseed, pc, cursor, analysis, previous, text_editor,
                   _analysis_job, events>>

\* the event loop runs a timer whose time has come: analyze_code
RunJob ==
    /\ pc = "done"
    /\ \E id \in DOMAIN timers : timers[id] = 0 /\ timers' = after_cancel(timers, id)
    /\ AnalyzeCode
    /\ UNCHANGED <<hashseed, text_editor, _analysis_job, events, since>>

\* the button Refresh Analysis calls analyze_code at once
RefreshAnalysis ==
    /\ pc = "done"
    /\ events < MaxEvents
    /\ events' = events + 1
    /\ AnalyzeCode
    /\ UNCHANGED <<hashseed, text_editor, _analysis_job, timers, since>>

\* the steps of a run of analyze_code
AnalysisStep ==
    \/ AnalyzeLine
    \/ BuildDependencies
    \/ ComputeReachingDefinitions
    \/ CreateLogicalBlocks
    \/ CreateControlFlowArcs
    \/ AssignOperationSequences

\* the constructor: the sample text is loaded and analyze_code is called
EditorInit ==
    /\ text_editor = Sum
    /\ code = text_editor
    /\ hashseed \in 0..(HashSeeds - 1)
    /\ previous = <<>>
    /\ Fresh
    /\ Untouched

EditorNext ==
    \/ OnTextChange
    \/ Tick
    \/ RunJob
    \/ RefreshAnalysis
    \/ AnalyzeLine
    \/ BuildDependencies
    \/ ComputeReachingDefinitions
    \/ CreateLogicalBlocks
    \/ CreateControlFlowArcs
    \/ AssignOperationSequences

\* a run of analyze_code, which is straight-line code in one handler, goes on:
\* WF_vars(AnalysisStep) with ENABLED <<AnalysisStep>>_vars written as the state
\* predicate it amounts to, a run being under way
RunGoesOn == []<>(pc = "done") \/ []<><<AnalysisStep>>_vars

\* time passes, the event loop gets to a timer whose time has come, and a run
\* of analyze_code goes on
Editor ==
    /\ EditorInit
    /\ [][EditorNext]_vars
    /\ WF_vars(Tick)
    /\ WF_vars(RunJob)
    /\ RunGoesOn

(***************************************************************************)
(* Properties of the results of an analysis.                                *)
(***************************************************************************)
\* the operation o is of the given kind, for variable v, at line n
IsOp(o, kind, v, n) == o.operation = kind /\ o.variable_name = v /\ o.line_number = n

\* the operation o is the KILL emitted for a redefinition
IsRedefinitionKill(o) == o.operation = "KILL" /\ StartsWith(o.details, "Variable '")

\* the greatest element of a non-empty set of numbers
Greatest(S) == CHOOSE m \in S : \A j \in S : m >= j

\* the source lines that are neither blank nor a comment nor a preprocessor line
Analysable ==
    {n \in 1..Len(code) : ~Shape[code[n]].blank /\ ~Shape[code[n]].comment
                          /\ ~Shape[code[n]].hash}

\* C1: in the chain build_operation_sequence returns, operation_id is the position
\* of the element (0..N-1, no gaps, no repeats), every element but the last has
\* next = operation_id + 1, and in a non-empty chain the last element's next is the
\* terminal sentinel None, which no other element has.
C1_DenseChain ==
    pc = "done" =>
        /\ \A k \in 1..Len(operations) : operations[k].operation_id = k - 1
        /\ \A k \in 1..(Len(operations) - 1) :
              operations[k].next = operations[k].operation_id + 1
        /\ Len(operations) > 0 => operations[Len(operations)].next = None
        /\ \A k \in 1..Len(operations) : operations[k].next = None => k = Len(operations)

\* a finished analysis whose chain holds WRITE, READ and KILL operations
C1_Witness ==
    /\ pc = "done"
    /\ Len(operations) >= 4
    /\ operations[Len(operations)].next = None
    /\ {operations[k].operation : k \in 1..Len(operations)} = {"WRITE", "READ", "KILL"}

\* C2: when an analysed line L2 writes a variable x that an earlier analysed line
\* also wrote, L1 being the latest such line, the chain holds a KILL of x at L2
\* whose details name L1, immediately before the WRITE of x at L2 and after the
\* WRITE of x at L1; the first WRITE of a variable has no redefinition KILL of
\* that variable before it.
C2_KillBeforeRewrite ==
    pc = "done" =>
        \A L2 \in DOMAIN line_analysis : \A x \in Elems(line_analysis[L2].writes) :
            LET earlier == {L1 \in DOMAIN line_analysis :
                               L1 < L2 /\ x \in Elems(line_analysis[L1].writes)}
            IN \E w \in 1..Len(operations) :
                  /\ IsOp(operations[w], "WRITE", x, L2)
                  /\ IF earlier = {}
                     THEN \A v \in 1..(w - 1) :
                             ~(IsRedefinitionKill(operations[v])
                               /\ operations[v].variable_name = x)
                     ELSE /\ w > 1
                          /\ IsOp(operations[w - 1], "KILL", x, L2)
                          /\ operations[w - 1].details =
                                "Variable '" \o x
                                \o "' redefined, killing previous definition from line "
                                \o Str(Greatest(earlier))
                          /\ \E v \in 1..(w - 2) :
                                IsOp(operations[v], "WRITE", x, Greatest(earlier))

\* a chain in which x is written three times: the KILL at line 3 names line 2,
\* the latest earlier write, not line 1
C2_Witness ==
    /\ pc = "done"
    /\ \E k \in 1..Len(operations) :
          /\ IsOp(operations[k], "KILL", "x", 3)
          /\ operations[k].details =
                "Variable 'x' redefined, killing previous definition from line 2"
    /\ \E k \in 1..Len(operations) : IsOp(operations[k], "WRITE", "x", 1)

\* C3: for every line of the text that holds a deallocation call free(p) of an
\* identifier p (comment lines left aside), the chain holds a KILL of p at that
\* line, after every WRITE and READ of that line.  The code does not do this on a
\* line that also is a function signature.
C3_FreeAlwaysKills ==
    pc = "done" =>
        \A n \in Analysable :
            Len(Freed[code[n]]) > 0 =>
                \E k \in 1..Len(operations) :
                    /\ IsOp(operations[k], "KILL", Freed[code[n]][1], n)
                    /\ \A j \in 1..Len(operations) :
                          (operations[j].line_number = n
                           /\ operations[j].operation \in {"WRITE", "READ"}) => j < k

\* C4: two analyses of the same text, each with fresh analyzers, leave identical
\* variable tables, dependency maps, reaching-definition maps, operation chains,
\* block lists and arc lists, the order inside every list included.  The code
\* orders the reads and writes of a line by list(set(...)), so the order changes
\* with the string hash seed of the interpreter process.
C4_SameResults == (pc = "done" /\ Len(previous) > 0) => previous[1] = Results

\* the build_dependencies step is over
AfterDependencies == pc \notin {"analyze_variables", "build_dependencies"}

\* the compute_reaching_definitions step is over
AfterReaching == AfterDependencies /\ pc # "compute_reaching_definitions"

\* the variables the analysed lines write
Written == UNION {Elems(line_analysis[n].writes) : n \in DOMAIN line_analysis}

\* the reads of the analysed lines that write w
ReadsOfWriters(w) ==
    UNION {Elems(line_analysis[n].reads) :
              n \in {m \in DOMAIN line_analysis : w \in Elems(line_analysis[m].writes)}}

\* C5: after analyze(), the dependency entry of every written variable w is the
\* union of the reads of the LineRecords that write w, minus w itself, without
\* duplicates; no dependency list holds its own key; for the three lines
\* int a = 10; int b = 5; int sum = a + b; the dependency set of sum is {a, b}.
C5_Dependencies ==
    AfterDependencies =>
        /\ \A w \in Written :
              /\ w \in DOMAIN dependencies
              /\ Elems(dependencies[w]) = ReadsOfWriters(w) \ {w}
              /\ Len(dependencies[w]) = Cardinality(Elems(dependencies[w]))
        /\ \A w \in DOMAIN dependencies : w \notin Elems(dependencies[w])
        /\ code = Sum => Elems(dependencies["sum"]) = {"a", "b"}

\* x is written by two lines, one of which reads x itself and a: x depends on a
\* alone
C5_Witness ==
    /\ AfterDependencies
    /\ "x" \in DOMAIN dependencies
    /\ dependencies["x"] = <<"a">>
    /\ Cardinality({n \in DOMAIN line_analysis : "x" \in Elems(line_analysis[n].writes)}) = 2
    /\ \E n \in DOMAIN line_analysis :
          {"x", "a"} \subseteq Elems(line_analysis[n].reads)
          /\ "x" \in Elems(line_analysis[n].writes)

\* the lines below n that hold a Definition of v
DefLinesBefore(v, n) ==
    IF v \in DOMAIN variables
    THEN {variables[v].definitions[k][1] : k \in 1..Len(variables[v].definitions)}
         \cap (1..(n - 1))
    ELSE {}

\* C6: after analyze(), the reaching-definitions list of every LineRecord n has
\* exactly one entry for each read variable that has a Definition at a line
\* below n, naming the greatest such line, and no entry for any other variable
\* (one defined only at n or later included).
C6_ReachingDefinitions ==
    AfterReaching =>
        \A n \in DOMAIN line_analysis :
            /\ n \in DOMAIN reaching_definitions
            /\ LET reached == {v \in Elems(line_analysis[n].reads) : DefLinesBefore(v, n) # {}}
               IN /\ Len(reaching_definitions[n]) = Cardinality(reached)
                  /\ Elems(reaching_definitions[n]) =
                        {"Line " \o Str(Greatest(DefLinesBefore(v, n))) \o " (defines " \o v
                         \o ")" : v \in reached}

\* line 3 reads x, defined at lines 1, 2 and 3, and a, defined nowhere: its list
\* names line 2 for x and nothing for a
C6_Witness ==
    /\ AfterReaching
    /\ 3 \in DOMAIN reaching_definitions
    /\ reaching_definitions[3] = <<"Line 2 (defines x)">>
    /\ Elems(line_analysis[3].reads) = {"x", "a"}
    /\ "x" \in Elems(line_analysis[3].writes)
    /\ DefLinesBefore("x", 3) = {1, 2}

\* C7: after analyze_variables there is exactly one LineRecord for every line
\* that is not blank, not a // comment and not a preprocessor line, and none for
\* any other line.  The code stores no LineRecord for a function-signature line.
C7_OneRecordPerLine == pc # "analyze_variables" => DOMAIN line_analysis = Analysable

\* the number of entries of the list of <<line, details>> pairs at line n
CountAt(pairs, n) == Cardinality({k \in 1..Len(pairs) : pairs[k][1] = n})

\* every name in the variable table or in a LineRecord
Names ==
    DOMAIN variables
        \cup UNION {Elems(line_analysis[n].reads) \cup Elems(line_analysis[n].writes) :
                       n \in DOMAIN line_analysis}

\* C8: after analyze_variables, for every variable v and line n, v has one
\* Definition at n when v is in the writes of LineRecord n and none otherwise,
\* and one Use at n when v is in the reads of LineRecord n and none otherwise.
\* The code registers a Use for every repeat of a name in the reads it collects.
C8_TablesAgree ==
    pc # "analyze_variables" =>
        \A v \in Names : \A n \in 1..Len(code) :
            /\ (IF v \in DOMAIN variables THEN CountAt(variables[v].definitions, n) ELSE 0)
                  = (IF n \in DOMAIN line_analysis /\ v \in Elems(line_analysis[n].writes)
                     THEN 1 ELSE 0)
            /\ (IF v \in DOMAIN variables THEN CountAt(variables[v].uses, n) ELSE 0)
                  = (IF n \in DOMAIN line_analysis /\ v \in Elems(line_analysis[n].reads)
                     THEN 1 ELSE 0)

\* the pointer of a line of the form *p = expr without == and without a pointer
\* type before it, as a list of at most one name
DerefTargetOf(line, h) ==
    IF h.DerefAssign.ok /\ ~Contains(line, "==") /\ ~h.PtrType.ok
    THEN <<Group(line, h.DerefAssign, 1)>> ELSE <<>>
DerefTarget == [line \in AllLines |-> DerefTargetOf(line, Hits(line))]

\* the identifiers the extractor finds in the text after the first = of a line
AssignedFrom ==
    [line \in AllLines |-> Elems(extract_variables_from_expression(assignment_part(line)))]

\* the variables with a Definition at line n
DefinedAt(n) ==
    {v \in DOMAIN variables : CountAt(variables[v].definitions, n) > 0}

\* C9: an analysed line *p = expr (no ==, no pointer type before it) registers a
\* Definition for the pseudo-variable *p only, never for p, registers a Use of p
\* at the line and has p among its reads, and makes the dependency set of *p
\* hold p and every identifier the extractor finds in expr; p and *p are two
\* entries of the variable table.
C9_DerefAssignment ==
    AfterDependencies =>
        \A n \in DOMAIN line_analysis :
            Len(DerefTarget[code[n]]) > 0 =>
                /\ DefinedAt(n) = {"*" \o DerefTarget[code[n]][1]}
                /\ DerefTarget[code[n]][1] \in DOMAIN variables
                /\ DerefTarget[code[n]][1] # "*" \o DerefTarget[code[n]][1]
                /\ CountAt(variables[DerefTarget[code[n]][1]].uses, n) > 0
                /\ DerefTarget[code[n]][1] \in Elems(line_analysis[n].reads)
                /\ "*" \o DerefTarget[code[n]][1] \in DOMAIN dependencies
                /\ ({DerefTarget[code[n]][1]} \cup AssignedFrom[code[n]])
                      \ {"*" \o DerefTarget[code[n]][1]}
                        \subseteq Elems(dependencies["*" \o DerefTarget[code[n]][1]])

\* the line *p = *p + x; was analysed: *p is defined there, p is not, and *p
\* depends on p and x
C9_Witness ==
    /\ AfterDependencies
    /\ \E n \in DOMAIN line_analysis :
          /\ code[n] = "*p = *p + x;"
          /\ DefinedAt(n) = {"*p"}
          /\ CountAt(variables["p"].uses, n) > 0
    /\ Elems(dependencies["*p"]) = {"p", "x"}

\* the indices of the blocks of a type, and of the arcs of a type
BlocksOfType(node_type) == {k \in 1..Len(blocks) : blocks[k].node_type = node_type}
ArcsOfType(arc_type) == {k \in 1..Len(arcs) : arcs[k].arc_type = arc_type}

\* the lines that hold a Definition of v
DefLines(v) ==
    IF v \in DOMAIN variables
    THEN {variables[v].definitions[k][1] : k \in 1..Len(variables[v].definitions)}
    ELSE {}

\* C10: for the five-line text int a = 10; / int b = 5; / if (a > b) { /
\* int sum = a + b; / } the analysis gives a defined at 1, b at 2, sum at 4, the
\* dependency sum -> {a, b}, a line-3 record with reads {a, b}, no writes and
\* the label "Control flow: if statement", exactly one XOR block (line 3),
\* exactly one ACTIVITY block, covering line 4, and exactly one conditional arc,
\* from the XOR block to that ACTIVITY block, described "If true".  The code
\* makes three ACTIVITY blocks (lines 1-2, line 4, line 5) and a second
\* conditional arc, "If false", to the block of the closing brace.
C10_Scenario ==
    (code = Scenario /\ pc = "done") =>
        /\ DOMAIN variables = {"a", "b", "sum"}
        /\ DefLines("a") = {1} /\ DefLines("b") = {2} /\ DefLines("sum") = {4}
        /\ Elems(dependencies["sum"]) = {"a", "b"}
        /\ Elems(line_analysis[3].reads) = {"a", "b"}
        /\ line_analysis[3].writes = <<>>
        /\ line_analysis[3].operation = "Control flow: if statement"
        /\ Cardinality(BlocksOfType("XOR")) = 1
        /\ \A k \in BlocksOfType("XOR") : blocks[k].start_line = 3 /\ blocks[k].end_line = 3
        /\ Cardinality(BlocksOfType("ACTIVITY")) = 1
        /\ \A k \in BlocksOfType("ACTIVITY") :
              blocks[k].start_line <= 4 /\ 4 <= blocks[k].end_line
        /\ Cardinality(ArcsOfType("dashed")) = 1
        /\ \A k \in ArcsOfType("dashed") :
              /\ arcs[k].from + 1 \in BlocksOfType("XOR")
              /\ arcs[k].to + 1 \in BlocksOfType("ACTIVITY")
              /\ arcs[k].description = "If true"

\* the rules of the Statement Classifier, in the order of the contract
RuleOrder ==
    <<"FuncDef", "DerefAssign", "DeclInit", "DeclList", "Assign", "Control", "Call", "Return">>

\* the rules whose condition holds on a line; h holds the searches of the line
MatchingRules(line, h) ==
    {r \in Elems(RuleOrder) :
        \/ r = "FuncDef" /\ h.FuncDef.ok
        \/ r = "DerefAssign" /\ h.DerefAssign.ok /\ ~Contains(line, "==") /\ ~h.PtrType.ok
        \/ r = "DeclInit" /\ h.DeclInit.ok
        \/ r = "DeclList" /\ h.DeclList.ok
        \/ r = "Assign" /\ h.Assign.ok /\ ~Contains(line, "==") /\ ~Contains(line, "*")
        \/ r = "Control" /\ h.Control.ok
        \/ r = "Call" /\ h.Call.ok
        \/ r = "Return" /\ Contains(line, "return")}

\* the rules that match each line of the inputs
Matching == [line \in AllLines |-> MatchingRules(line, Hits(line))]

\* the first rule of the order that matches the line, "" when none does
FirstRule(line) ==
    IF Matching[line] = {} THEN ""
    ELSE RuleOrder[CHOOSE k \in 1..Len(RuleOrder) :
                       /\ RuleOrder[k] \in Matching[line]
                       /\ \A j \in 1..(k - 1) : RuleOrder[j] \notin Matching[line]]

\* the record la carries the effects of rule r and of no other rule
EffectsOf(r, la) ==
    /\ r = "" => la.reads = <<>> /\ la.writes = <<>> /\ la.operation = ""
    /\ r = "DerefAssign" =>
          /\ Len(la.writes) = 1 /\ StartsWith(la.writes[1], "*")
          /\ la.operation = "Pointer dereference assignment: " \o la.writes[1] \o " = value"
    /\ r = "DeclInit" =>
          /\ Len(la.writes) = 1
          /\ la.operation = "Declaration and assignment of " \o la.writes[1]
    /\ r = "DeclList" =>
          /\ Len(la.writes) > 0 => StartsWith(la.operation, "Declaration of ")
          /\ la.reads = <<>>
    /\ r = "Assign" =>
          /\ Len(la.writes) = 1 /\ la.operation = "Assignment to " \o la.writes[1]
    /\ r = "Control" =>
          /\ la.writes = <<>>
          /\ la.operation \in {"Control flow: if statement", "Control flow: while statement",
                               "Control flow: for statement"}
    /\ r = "Call" =>
          \/ la.writes = <<>> /\ StartsWith(la.operation, "Function call: ")
          \/ Len(la.writes) = 1
             /\ StartsWith(la.operation, "Memory allocation: " \o la.writes[1] \o " = ")
    /\ r = "Return" => la.writes = <<>> /\ la.operation = "Return statement"

\* the Definitions and Uses that the variable table holds for line n
EntriesAt(n) ==
    {v \in DOMAIN variables : CountAt(variables[v].definitions, n)
                              + CountAt(variables[v].uses, n) > 0}

\* C11: every analysed line carries the effects of exactly one rule, the first
\* that matches in the order function signature, pointer-dereference assignment,
\* declaration with initializer, declaration list, plain assignment, control
\* header, call, return; nothing of a later rule that matches too is recorded (a
\* control header is labelled control flow, writes nothing and is never a call),
\* a function signature records no reads, writes or label, and a line that no
\* rule matches has empty reads, writes and label.
C11_FirstRuleWins ==
    pc # "analyze_variables" =>
        \A n \in Analysable :
            IF FirstRule(code[n]) = "FuncDef"
            THEN /\ EntriesAt(n) = {}
                 /\ n \in DOMAIN line_analysis =>
                       /\ line_analysis[n].reads = <<>>
                       /\ line_analysis[n].writes = <<>>
            ELSE /\ n \in DOMAIN line_analysis
                 /\ EffectsOf(FirstRule(code[n]), line_analysis[n])

\* an analysed control header that the call pattern matches too, recorded as
\* control flow, next to a line that no rule matches
C11_Witness ==
    /\ pc = "done"
    /\ \E n \in DOMAIN line_analysis :
          /\ {"Control", "Call"} \subseteq Matching[code[n]]
          /\ line_analysis[n].operation = "Control flow: if statement"
          /\ line_analysis[n].reads # <<>>
    /\ \E n \in DOMAIN line_analysis :
          Matching[code[n]] = {} /\ line_analysis[n].operation = ""

\* C12: what extract_variables_from_expression returns holds no name twice and
\* no C reserved word (primitive types such as long, short, void, control
\* keywords, storage qualifiers, NULL), whichever step produced the name; seen
\* here in the reads of every LineRecord, which are the extractor's result for
\* the line's expression.  The code filters call arguments by a shorter list
\* (int, char, double, float, NULL, sizeof) and does not filter dereferenced
\* names at all, so long and sizeof come through.
C12_NoReservedWords ==
    pc # "analyze_variables" =>
        \A n \in DOMAIN line_analysis :
            /\ Elems(line_analysis[n].reads) \cap c_keywords = {}
            /\ Cardinality(Elems(line_analysis[n].reads)) = Len(line_analysis[n].reads)

\* the operation o is the KILL emitted for a deallocation call
IsFreeKill(o) == o.operation = "KILL" /\ StartsWith(o.details, "Memory freed")

\* the positions of the chain that hold an operation of the kind for v at line n
OpsAt(kind, v, n) == {k \in 1..Len(operations) : IsOp(operations[k], kind, v, n)}

\* the rank of an operation within its line: writes and their redefinition
\* KILLs, then reads, then the deallocation KILL
Phase(o) ==
    IF o.operation = "WRITE" \/ IsRedefinitionKill(o) THEN 1
    ELSE IF o.operation = "READ" THEN 2 ELSE 3

\* C13: along the chain the line numbers never decrease; within one line the
\* WRITE operations (each with its redefinition KILL immediately before it, if
\* any) come before the READ operations, which come before the line's
\* deallocation KILL; a line has exactly one WRITE for each variable of its
\* writes and exactly one READ for each variable of its reads, and no others.
C13_LineOrder ==
    pc = "done" =>
        /\ \A k \in 1..(Len(operations) - 1) :
              /\ operations[k].line_number <= operations[k + 1].line_number
              /\ operations[k].line_number = operations[k + 1].line_number =>
                    Phase(operations[k]) <= Phase(operations[k + 1])
              /\ IsFreeKill(operations[k]) =>
                    operations[k].line_number < operations[k + 1].line_number
              /\ IsRedefinitionKill(operations[k]) =>
                    IsOp(operations[k + 1], "WRITE", operations[k].variable_name,
                         operations[k].line_number)
        /\ \A k \in 1..Len(operations) :
              /\ operations[k].line_number \in DOMAIN line_analysis
              /\ operations[k].operation = "WRITE" =>
                    operations[k].variable_name
                        \in Elems(line_analysis[operations[k].line_number].writes)
              /\ operations[k].operation = "READ" =>
                    operations[k].variable_name
                        \in Elems(line_analysis[operations[k].line_number].reads)
        /\ \A n \in DOMAIN line_analysis :
              /\ \A v \in Elems(line_analysis[n].writes) :
                    Cardinality(OpsAt("WRITE", v, n)) = 1
              /\ \A v \in Elems(line_analysis[n].reads) :
                    Cardinality(OpsAt("READ", v, n)) = 1

\* a chain whose second line holds, in this order, a redefinition KILL, a WRITE,
\* a READ and a deallocation KILL, before the operations of the third line
C13_Witness ==
    /\ pc = "done"
    /\ code = Release
    /\ Len(operations) > 5
    /\ IsOp(operations[2], "KILL", "q", 2) /\ IsRedefinitionKill(operations[2])
    /\ IsOp(operations[3], "WRITE", "q", 2)
    /\ IsOp(operations[4], "READ", "p", 2)
    /\ IsOp(operations[5], "KILL", "p", 2) /\ IsFreeKill(operations[5])

\* the positions of the deallocation KILLs of line n
FreeKillsAt(n) ==
    {k \in 1..Len(operations) : IsFreeKill(operations[k]) /\ operations[k].line_number = n}

\* the analysed lines before line n that write x
WritersBefore(x, n) ==
    {m \in DOMAIN line_analysis : m < n /\ x \in Elems(line_analysis[m].writes)}

\* C14: the KILL emitted for free(name) leaves the record of most recent
\* definitions as it was: an analysed line that holds free(name) gets exactly
\* one such KILL, for the first name freed, whether or not name was ever
\* written, no line gets more than one, and a WRITE of name after the free is
\* preceded by a redefinition KILL naming the last line that wrote name before,
\* or by none when no line wrote it.
C14_FreeKeepsDefinitions ==
    pc = "done" =>
        /\ \A n \in 1..Len(code) :
              /\ Cardinality(FreeKillsAt(n)) <= 1
              /\ (n \in DOMAIN line_analysis /\ Len(Freed[code[n]]) > 0) =>
                    \E k \in FreeKillsAt(n) :
                        operations[k].variable_name = Freed[code[n]][1]
        /\ \A f \in 1..Len(operations) : \A w \in (f + 1)..Len(operations) :
              (/\ IsFreeKill(operations[f])
               /\ operations[w].operation = "WRITE"
               /\ operations[w].variable_name = operations[f].variable_name) =>
                  LET x == operations[w].variable_name
                      earlier == WritersBefore(x, operations[w].line_number)
                  IN IF earlier = {}
                     THEN ~IsRedefinitionKill(operations[w - 1])
                     ELSE /\ IsOp(operations[w - 1], "KILL", x, operations[w].line_number)
                          /\ operations[w - 1].details =
                                "Variable '" \o x
                                \o "' redefined, killing previous definition from line "
                                \o Str(Greatest(earlier))

\* p is declared at line 1, freed at line 2 and declared again at line 3: the
\* KILL of the redefinition names line 1
C14_Witness ==
    /\ pc = "done"
    /\ code = <<"int a, p;", "free(p);", "int a, p;">>
    /\ \E f \in FreeKillsAt(2) : operations[f].variable_name = "p"
    /\ \E k \in 1..Len(operations) :
          /\ IsOp(operations[k], "KILL", "p", 3)
          /\ operations[k].details =
                "Variable 'p' redefined, killing previous definition from line 1"

\* the lines of the text that hold a function signature type name(...) {
SignatureLines == {n \in 1..Len(code) : "FuncDef" \in Matching[code[n]]}

\* C15: pass 2 makes of every function-signature line, whatever the name of the
\* function, a START block of that one line (start_line = end_line = the line).
\* The code does so only for a function called main; the line of any other
\* function falls through to the later rules.
C15_SignatureStartsBlock ==
    pc = "done" =>
        \A n \in SignatureLines :
            \E k \in 1..Len(blocks) :
                /\ blocks[k].node_type = "START"
                /\ blocks[k].start_line = n
                /\ blocks[k].end_line = n

\* C16: every block of create_logical_blocks has start_line <= end_line <= the
\* number of source lines, and its captured lines are exactly the source lines
\* start_line..end_line, in order.  The code breaks this in the bare { rule,
\* whose block starts at the brace line but captures the non-blank lines after
\* it, and in the return rule, whose END block captures the return line and the
\* closing brace but not the blank and comment lines between them.
C16_BlocksAreSourceRuns ==
    pc = "done" =>
        \A k \in 1..Len(blocks) :
            /\ 1 <= blocks[k].start_line
            /\ blocks[k].start_line <= blocks[k].end_line
            /\ blocks[k].end_line <= Len(code)
            /\ blocks[k].lines = SubSeq(code, blocks[k].start_line, blocks[k].end_line)

\* the cursor of pass 2 stands on line r and the rule named is the first that
\* applies to the line
AtRule(r, rule) ==
    /\ pc = "create_logical_blocks" /\ cursor < Len(code) /\ r = cursor + 1
    /\ LET sh == Shape[code[r]]
           first == IF sh.blank \/ sh.hash THEN "skip"
                    ELSE IF sh.main THEN "START"
                    ELSE IF sh.loop THEN "LOOP"
                    ELSE IF sh.if THEN "XOR"
                    ELSE IF sh.return THEN "return"
                    ELSE IF sh.else THEN "else"
                    ELSE IF sh.open /\ r > 1 /\ Shape[code[r - 1]].keyword THEN "brace"
                    ELSE IF ~sh.comment THEN "regular"
                    ELSE "comment"
       IN first = rule

\* the lines after r that are neither blank nor a comment
Substantive(r) ==
    {c \in (r + 1)..Len(code) : ~Shape[code[c]].blank /\ ~Shape[code[c]].comment}

\* the first substantive line after r is a lone } and no later line holds a }
ClosesAfter(r, c) ==
    /\ c \in Substantive(r) /\ \A d \in Substantive(r) : c <= d
    /\ Shape[code[c]].stripped = "}"
    /\ \A d \in (c + 1)..Len(code) : ~Shape[code[d]].close

\* the step appends exactly one block, of the given type and line range
AppendsBlock(node_type, start_line, end_line) ==
    /\ Len(blocks') = Len(blocks) + 1
    /\ SubSeq(blocks', 1, Len(blocks)) = blocks
    /\ blocks'[Len(blocks')].node_type = node_type
    /\ blocks'[Len(blocks')].start_line = start_line
    /\ blocks'[Len(blocks')].end_line = end_line

\* C17: on a return line r pass 2 emits exactly one END block that starts at r.
\* When the next line after r that is neither blank nor a comment is a lone }
\* at line c and no line after c holds a }, the block ends at c and the cursor
\* resumes at line c + 1; in every other case the block ends at r, nothing is
\* taken in and the cursor resumes at line r + 1.
C17_ReturnRule ==
    [][\A r \in 1..Len(code) :
          AtRule(r, "return") =>
              IF \E c \in (r + 1)..Len(code) : ClosesAfter(r, c)
              THEN \E c \in (r + 1)..Len(code) :
                      ClosesAfter(r, c) /\ AppendsBlock("END", r, c) /\ cursor' = c
              ELSE AppendsBlock("END", r, r) /\ cursor' = r]_vars

\* the END block of a return at line 5 that took in the closing brace of line 8
\* across a blank line and a comment, and the cursor after it
C17_Witness ==
    /\ code = Braces
    /\ pc = "create_logical_blocks"
    /\ cursor = 8
    /\ Len(blocks) > 0
    /\ blocks[Len(blocks)].node_type = "END"
    /\ blocks[Len(blocks)].start_line = 5
    /\ blocks[Len(blocks)].end_line = 8

\* the brace depth that a line leaves open: the { of the line from its first {
\* on, less the } after it
OpenDepth ==
    [line \in AllLines |->
        IF Contains(line, "{")
        THEN Count(From(line, Find(line, "{")), "{") - Count(From(line, Find(line, "{")), "}")
        ELSE 0]

\* the brace depth after line e of a collection that starts with the header r
RECURSIVE DepthAfter(_, _)
DepthAfter(r, e) ==
    IF e = r THEN OpenDepth[code[r]]
    ELSE DepthAfter(r, e - 1) + Shape[code[e]].opens - Shape[code[e]].closes

\* the last line collected after the header r: the first line at which the
\* depth is back to zero, the last line of the text when there is none
LastCollected(r) ==
    IF \E e \in r..Len(code) : DepthAfter(r, e) <= 0
    THEN CHOOSE e \in r..Len(code) :
             DepthAfter(r, e) <= 0 /\ \A d \in r..(e - 1) : DepthAfter(r, d) > 0
    ELSE Len(code)

\* C18: on an else header r that holds a {, lines are collected, the brace depth
\* being tracked, until the depth is back to zero or the text ends, and one
\* ACTIVITY block of exactly the collected lines is emitted when more than two
\* lines were collected, none otherwise; on an else header without {, the one
\* following line is collected and a 2-line ACTIVITY block is emitted.  The
\* cursor ends just past the last collected line.  The code starts the depth at
\* 1 whatever the header holds, so a header else { ... } that closes its own
\* brace takes in the lines after it; and an else without { on the last line
\* gives a block of one line.
C18_ElseRule ==
    [][\A r \in 1..Len(code) :
          AtRule(r, "else") =>
              IF Shape[code[r]].open
              THEN /\ cursor' = LastCollected(r)
                   /\ IF LastCollected(r) - r + 1 > 2
                      THEN AppendsBlock("ACTIVITY", r, LastCollected(r))
                      ELSE blocks' = blocks
              ELSE AppendsBlock("ACTIVITY", r, r + 1) /\ cursor' = r + 1]_vars

\* C19: pass 2 terminates on every text: every iteration of its cursor loop
\* moves the cursor strictly forward, whichever rule applies, and never past
\* the end of the text (the inner collection loops stop at the last line), and
\* the loop is left exactly when the cursor is beyond the last line.  The
\* distance of the cursor to the end of the text is the variant.
C19_Pass2Terminates ==
    [][pc = "create_logical_blocks" =>
          IF cursor < Len(code)
          THEN pc' = pc /\ cursor < cursor' /\ cursor' <= Len(code)
          ELSE pc' = "create_control_flow_arcs"]_vars

\* the end of pass 2 on a text in which the else rule and the header rule moved
\* the cursor: it stands beyond the last line and three blocks were emitted
C19_Witness ==
    /\ code = OneLineElse
    /\ pc = "create_logical_blocks"
    /\ cursor = Len(code)
    /\ Len(blocks) = 3

\* C20: the ACTIVITY block of index i (0-based) is classified as inside a branch
\* by _is_branch_block exactly when block i - 1 or block i - 2 exists and is an
\* XOR block, wherever the XOR block stands, index 0 included.  The range the
\* code scans stops before index 0, so an XOR block that opens the block list is
\* never seen.
C20_BranchLookback ==
    pc = "done" =>
        \A idx \in 0..(Len(blocks) - 1) :
            blocks[idx + 1].node_type = "ACTIVITY" =>
                (_is_branch_block(blocks, idx)
                    <=> \E k \in {idx - 1, idx - 2} :
                           k >= 0 /\ blocks[k + 1].node_type = "XOR")

(***************************************************************************)
(* The arc builder, one block a step.                                      *)
(***************************************************************************)
\* the step of create_control_flow_arcs that visits block idx (0-based), a block
\* of the given type
Visits(idx, node_type) ==
    /\ pc = "create_control_flow_arcs"
    /\ cursor = idx
    /\ idx < Len(blocks)
    /\ blocks[idx + 1].node_type = node_type

\* the step appends exactly the arcs of the list emitted, in its order
Emits(emitted) == arcs' = arcs \o emitted

\* the arcs the step appended
Emitted == SubSeq(arcs', Len(arcs) + 1, Len(arcs'))

\* the candidates of the forward search of a branch block: the blocks after idx
\* that are LOOP, XOR or END, or an ACTIVITY not classified as inside a branch
MergeCandidates(idx) ==
    {j \in (idx + 1)..(Len(blocks) - 1) :
        \/ blocks[j + 1].node_type \in {"LOOP", "XOR", "END"}
        \/ blocks[j + 1].node_type = "ACTIVITY" /\ ~_is_branch_block(blocks, j)}

\* C21: the step that visits an ACTIVITY block at index i appends at most one
\* arc, and it is sequential (solid).  When the block is classified as inside a
\* branch the arc goes to the first block j > i that is LOOP, XOR or END or an
\* ACTIVITY not classified as inside a branch, and there is no arc when no
\* such block exists; otherwise the arc goes to block i + 1 exactly when that
\* block exists and is not an END block.
C21_ActivityArcs ==
    [][\A idx \in 0..(Len(blocks) - 1) :
          Visits(idx, "ACTIVITY") =>
              /\ Len(arcs') <= Len(arcs) + 1
              /\ IF _is_branch_block(blocks, idx)
                 THEN IF MergeCandidates(idx) = {} THEN Emits(<<>>)
                      ELSE /\ Len(Emitted) = 1
                           /\ Emitted[1].from = idx
                           /\ Emitted[1].arc_type = "solid"
                           /\ Emitted[1].to \in MergeCandidates(idx)
                           /\ \A j \in MergeCandidates(idx) : Emitted[1].to <= j
                 ELSE IF idx + 1 < Len(blocks) /\ blocks[idx + 2].node_type # "END"
                      THEN /\ Len(Emitted) = 1
                           /\ Emitted[1].from = idx
                           /\ Emitted[1].arc_type = "solid"
                           /\ Emitted[1].to = idx + 1
                      ELSE Emits(<<>>)]_vars

\* the arc builder has visited the true branch of the if of the loop in main:
\* block 3 is inside a branch, block 4 (the else branch) is too and is passed
\* over, and the arc goes to block 5
C21_Witness ==
    /\ code = LoopInMain
    /\ pc = "create_control_flow_arcs"
    /\ cursor = 4
    /\ _is_branch_block(blocks, 3)
    /\ _is_branch_block(blocks, 4)
    /\ arcs[Len(arcs)] = Arc(3, 5, "solid", "Branch to merge")

\* the nested-loop depth with which the forward scan of the loop at index idx
\* tests block k: 0 when the scan starts at idx + 1, one less after a block with
\* a } met at a positive depth, one more on a LOOP block
RECURSIVE LoopDepth(_, _)
LoopDepth(idx, k) ==
    LET before == IF k = idx + 1 THEN 0
                  ELSE IF LoopDepth(idx, k - 1) > 0
                          /\ \E n \in 1..Len(blocks[k].lines) : Contains(blocks[k].lines[n], "}")
                       THEN LoopDepth(idx, k - 1) - 1
                       ELSE LoopDepth(idx, k - 1)
    IN IF blocks[k + 1].node_type = "LOOP" THEN before + 1 ELSE before

\* the blocks the forward scan of the loop at index idx can select
ExitCandidates(idx) ==
    {k \in (idx + 1)..(Len(blocks) - 1) :
        /\ LoopDepth(idx, k) = 0
        /\ \/ blocks[k + 1].node_type \in {"XOR", "LOOP", "END"}
           \/ blocks[k + 1].node_type = "ACTIVITY" /\ k > idx + 2}

\* the END blocks after the loop at index idx
EndsAfter(idx) == {k \in (idx + 1)..(Len(blocks) - 1) : blocks[k + 1].node_type = "END"}

\* the loop-exit blocks of the loop at index idx: the first candidate of the
\* scan, without one the first END block after the loop, without one none
LoopExits(idx) ==
    IF ExitCandidates(idx) # {}
    THEN {k \in ExitCandidates(idx) : \A j \in ExitCandidates(idx) : k <= j}
    ELSE {k \in EndsAfter(idx) : \A j \in EndsAfter(idx) : k <= j}

\* the conditional arcs among the arcs the step appended
Conditional(emitted) == SelectSeq(emitted, LAMBDA a : a.arc_type = "dashed")

\* C22: the step that visits a LOOP block at index L appends a conditional arc
\* "Loop true" to L + 1 when that block exists and a conditional arc "Loop false"
\* to the loop-exit block E.  E is the first block of a forward scan from L + 1
\* that is met at nested-loop depth 0 (the depth rises on each LOOP block met and
\* falls, when positive, after a block whose captured lines hold a }) and is XOR,
\* LOOP or END or an ACTIVITY with index > L + 2; when the scan selects nothing E
\* is the first END block after L, and when there is none no "Loop false" arc is
\* appended.
C22_LoopArcs ==
    [][\A idx \in 0..(Len(blocks) - 1) :
          Visits(idx, "LOOP") =>
              Conditional(Emitted) =
                  (IF idx + 1 < Len(blocks)
                   THEN <<Arc(idx, idx + 1, "dashed", "Loop true")>> ELSE <<>>)
                  \o (IF LoopExits(idx) # {}
                      THEN <<Arc(idx, CHOOSE k \in LoopExits(idx) : TRUE, "dashed", "Loop false")>>
                      ELSE <<>>)]_vars

\* the outer loop of two nested loops has been visited: the inner LOOP block
\* raised the depth, the block with the } of the inner loop lowered it, and the
\* exit is block 4, the first ACTIVITY met at depth 0 beyond index 2
C22_Witness ==
    /\ Len(code) = 7
    /\ code[2] = "for (i = 0; i < n; i++) {"
    /\ pc = "create_control_flow_arcs"
    /\ cursor = 1
    /\ LoopDepth(0, 1) = 1
    /\ LoopDepth(0, 4) = 0
    /\ arcs[1] = Arc(0, 1, "dashed", "Loop true")
    /\ arcs[2] = Arc(0, 4, "dashed", "Loop false")

\* the branch blocks of the XOR blocks that lie between the loop at index idx and
\* the block at index e: the block after the XOR block and the one after that
BranchesBetween(idx, e) ==
    {b \in 0..(Len(blocks) - 1) :
        \E x \in (idx + 1)..(e - 1) : blocks[x + 1].node_type = "XOR" /\ b \in {x + 1, x + 2}}

\* C23: every loop-back arc targets a LOOP block L and originates from a block B
\* with L < B < E, E the loop-exit block of L, and B is an ACTIVITY block or a
\* branch block of an XOR block lying between L and E; an END block is never the
\* source of any arc.
C23_LoopBackSource ==
    \A n \in 1..Len(arcs) :
        /\ blocks[arcs[n].from + 1].node_type # "END"
        /\ arcs[n].arc_type = "dotted" =>
              /\ blocks[arcs[n].to + 1].node_type = "LOOP"
              /\ arcs[n].to < arcs[n].from
              /\ \A e \in LoopExits(arcs[n].to) :
                    /\ arcs[n].from < e
                    /\ \/ blocks[arcs[n].from + 1].node_type = "ACTIVITY"
                       \/ arcs[n].from \in BranchesBetween(arcs[n].to, e)

\* C24: the step that visits an XOR block at index i appends a conditional arc
\* "If true" to block i + 1 exactly when that block exists, then a conditional
\* arc "If false" to block i + 2 exactly when blocks i + 1 and i + 2 both exist
\* and are both ACTIVITY blocks, whether or not the lines of block i + 2 mention
\* else, and nothing more.
C24_XorArcs ==
    [][\A idx \in 0..(Len(blocks) - 1) :
          Visits(idx, "XOR") =>
              Emits((IF idx + 1 < Len(blocks)
                     THEN <<Arc(idx, idx + 1, "dashed", "If true")>> ELSE <<>>)
                    \o (IF /\ idx + 2 < Len(blocks)
                           /\ blocks[idx + 2].node_type = "ACTIVITY"
                           /\ blocks[idx + 3].node_type = "ACTIVITY"
                        THEN <<Arc(idx, idx + 2, "dashed", "If false")>> ELSE <<>>))]_vars

\* the if of the text with braces on lines of their own has been visited: the
\* block after the true branch holds only a }, no else, and is the target of
\* the "If false" arc
C24_Witness ==
    /\ code = Braces
    /\ pc = "create_control_flow_arcs"
    /\ cursor = 1
    /\ blocks[3].node_type = "ACTIVITY"
    /\ ~HasElse(blocks[3])
    /\ arcs = <<Arc(0, 1, "dashed", "If true"), Arc(0, 2, "dashed", "If false")>>

(***************************************************************************)
(* The blocks and arcs an analysis leaves behind.                           *)
(***************************************************************************)
\* the operation sequences of the blocks from block k (1-based) on, one after
\* the other
RECURSIVE BoundFrom(_)
BoundFrom(k) ==
    IF k > Len(blocks) THEN <<>> ELSE blocks[k].operation_sequence \o BoundFrom(k + 1)

\* the blocks whose line range holds line n
BlocksAt(n) == {k \in 1..Len(blocks) : blocks[k].start_line <= n /\ n <= blocks[k].end_line}

\* C26: after the analysis block_id is the index of the block in the block list,
\* start_line is strictly increasing along the list and the end_line of each
\* block is strictly less than the start_line of the next, so the line ranges
\* are pairwise disjoint.  The operations bound to a block are operations of
\* the chain of the lines of its range, every operation of the chain is bound
\* to at most one block, and the sequences of the blocks, one after the other,
\* are the operations of the chain whose line lies in a block, in chain order.
C26_BlocksPartitionChain ==
    pc = "done" =>
        /\ \A k \in 1..Len(blocks) : blocks[k].block_id = k - 1
        /\ \A k \in 1..(Len(blocks) - 1) :
              /\ blocks[k].start_line < blocks[k + 1].start_line
              /\ blocks[k].end_line < blocks[k + 1].start_line
        /\ \A k \in 1..Len(blocks) : \A n \in 1..Len(blocks[k].operation_sequence) :
              /\ \E m \in 1..Len(operations) : operations[m] = blocks[k].operation_sequence[n]
              /\ k \in BlocksAt(blocks[k].operation_sequence[n].line_number)
        /\ \A n \in 1..Len(operations) : Cardinality(BlocksAt(operations[n].line_number)) <= 1
        /\ BoundFrom(1) = SelectSeq(operations, LAMBDA op : BlocksAt(op.line_number) # {})

\* the analysis of the loop in main is done: seven blocks, the else block of
\* lines 5 to 7 holds the operations of line 6 and the block of the if those of
\* line 3
C26_Witness ==
    /\ code = LoopInMain
    /\ pc = "done"
    /\ Len(blocks) = 7
    /\ blocks[5].start_line = 5
    /\ blocks[5].end_line = 7
    /\ Len(blocks[5].operation_sequence) > 1
    /\ blocks[5].operation_sequence[1].line_number = 6
    /\ Len(blocks[3].operation_sequence) > 0

\* the block the arc builder was visiting when it emitted the arc: the target
\* of a loop-back arc, the source of any other
VisitedFor(arc) == IF arc.arc_type = "dotted" THEN arc.to ELSE arc.from

\* C27: from and to of every arc are valid indices of the block list; every
\* sequential or conditional arc goes forward (from < to); every loop-back arc
\* goes backward (to < from) and its target is a LOOP block; and the arcs stand
\* in the arc list in non-decreasing order of the block that was being visited
\* when they were emitted.
C27_ArcsWellFormed ==
    /\ \A n \in 1..Len(arcs) :
          /\ arcs[n].from \in 0..(Len(blocks) - 1)
          /\ arcs[n].to \in 0..(Len(blocks) - 1)
          /\ arcs[n].arc_type \in {"solid", "dashed", "dotted"}
          /\ arcs[n].arc_type \in {"solid", "dashed"} => arcs[n].from < arcs[n].to
          /\ arcs[n].arc_type = "dotted" =>
                arcs[n].to < arcs[n].from /\ blocks[arcs[n].to + 1].node_type = "LOOP"
    /\ \A n \in 1..(Len(arcs) - 1) : VisitedFor(arcs[n]) <= VisitedFor(arcs[n + 1])

\* the arcs of two loops in a row: the loop-back arc of the first loop, from
\* block 5, stands before the sequential arc of block 1, and the last block is
\* the exit of both loops
C27_Witness ==
    /\ Len(code) = 7
    /\ code[4] = "while (b) {"
    /\ pc = "done"
    /\ Len(arcs) = 9
    /\ arcs[3] = Arc(5, 0, "dotted", "Loop back")
    /\ arcs[4] = Arc(1, 2, "solid", "Sequential")
    /\ arcs[8] = Arc(5, 3, "dotted", "Loop back")

(***************************************************************************)
(* The chain and the variable table.                                        *)
(***************************************************************************)
\* the line numbers of the operations of the chain that satisfy the test, in
\* chain order
LinesOfOps(Test(_)) ==
    LET hits == SelectSeq(operations, Test)
    IN [k \in 1..Len(hits) |-> hits[k].line_number]

\* the line numbers of the Definitions of v, in list order
DefinitionLines(v) ==
    IF v \in DOMAIN variables
    THEN [k \in 1..Len(variables[v].definitions) |-> variables[v].definitions[k][1]]
    ELSE <<>>

\* the names the chain or the variable table hold
Mentioned == Names \cup {operations[k].variable_name : k \in 1..Len(operations)}

\* C28: the chain agrees with the variable table.  For every variable v the line
\* numbers of the WRITE operations for v, in chain order, are the line numbers
\* of the Definitions of v, in list order, and they increase strictly; the
\* number of redefinition KILL operations for v is the number of its Definitions
\* minus one, zero when it has none; and every READ operation for v at line n
\* has a Use of v at line n.
C28_ChainMatchesTable ==
    pc = "done" =>
        \A v \in Mentioned :
            /\ LinesOfOps(LAMBDA o : o.operation = "WRITE" /\ o.variable_name = v)
                  = DefinitionLines(v)
            /\ \A k \in 1..(Len(DefinitionLines(v)) - 1) :
                  DefinitionLines(v)[k] < DefinitionLines(v)[k + 1]
            /\ Len(LinesOfOps(LAMBDA o : IsRedefinitionKill(o) /\ o.variable_name = v))
                  = Max(0, Len(DefinitionLines(v)) - 1)
            /\ \A k \in 1..Len(operations) :
                  operations[k].operation = "READ" /\ operations[k].variable_name = v =>
                      /\ v \in DOMAIN variables
                      /\ CountAt(variables[v].uses, operations[k].line_number) > 0

\* the analysis of three lines that write x twice: two Definitions, two WRITE
\* operations at the same lines, one redefinition KILL, and a READ of x with
\* its Use
C28_Witness ==
    /\ pc = "done"
    /\ "x" \in DOMAIN variables
    /\ DefinitionLines("x") = <<1, 3>>
    /\ OpsAt("WRITE", "x", 3) # {}
    /\ OpsAt("READ", "x", 3) # {}
    /\ Len(LinesOfOps(LAMBDA o : IsRedefinitionKill(o) /\ o.variable_name = "x")) = 1

\* C29: the target of a "Loop false" arc is never a LOOP block: the scan of
\* _find_loop_exit raises the depth on every LOOP block before it tests for
\* depth 0, so a loop that follows the body of another loop is never taken as
\* its exit.  The exit is an XOR, END or ACTIVITY block with a larger index than
\* the loop header.
C29_ExitIsNoLoop ==
    \A n \in 1..Len(arcs) :
        arcs[n].description = "Loop false" =>
            /\ blocks[arcs[n].from + 1].node_type = "LOOP"
            /\ arcs[n].from < arcs[n].to
            /\ arcs[n].to < Len(blocks)
            /\ blocks[arcs[n].to + 1].node_type \in {"XOR", "END", "ACTIVITY"}

\* the first of two loops in a row has been visited: the second loop, block 3,
\* follows its body and is passed over, the exit is the END block 6
C29_Witness ==
    /\ Len(code) = 7
    /\ code[4] = "while (b) {"
    /\ pc = "create_control_flow_arcs"
    /\ cursor = 1
    /\ blocks[4].node_type = "LOOP"
    /\ blocks[7].node_type = "END"
    /\ arcs[2] = Arc(0, 6, "dashed", "Loop false")

\* C30: a comment line (its first non-blank characters are //) never starts a
\* block in pass 2, whatever its text holds: no block of any type has a comment
\* line as its start_line, a comment line stands among the captured lines of
\* ACTIVITY blocks only, and the dataflow tables hold nothing for a comment
\* line.
C30_CommentsStartNoBlock ==
    /\ \A k \in 1..Len(blocks) :
          /\ ~Shape[code[blocks[k].start_line]].comment
          /\ \A n \in 1..Len(blocks[k].lines) :
                Shape[blocks[k].lines[n]].comment => blocks[k].node_type = "ACTIVITY"
    /\ \A n \in DOMAIN line_analysis : ~Shape[code[n]].comment
    /\ \A v \in DOMAIN variables :
          /\ \A k \in 1..Len(variables[v].definitions) :
                ~Shape[code[variables[v].definitions[k][1]]].comment
          /\ \A k \in 1..Len(variables[v].uses) :
                ~Shape[code[variables[v].uses[k][1]]].comment

(***************************************************************************)
(* The debounce of the editor, under the specification Editor.              *)
(***************************************************************************)
\* the ids of the analysis jobs that are scheduled and have not run
Pending == DOMAIN timers

\* the step is a call of on_text_change
Called == _analysis_job' # _analysis_job

\* the step starts a run of analyze_code on the text of the widget with
\* analyzers created anew
StartsRun ==
    /\ pc' = "analyze_variables"
    /\ cursor' = 1
    /\ code' = text_editor
    /\ variables' = <<>>
    /\ line_analysis' = <<>>
    /\ dependencies' = <<>>
    /\ reaching_definitions' = <<>>
    /\ blocks' = <<>>
    /\ arcs' = <<>>
    /\ operations' = <<>>

\* the step is the run of a scheduled job
JobRuns == pc = "done" /\ pc' # "done" /\ Pending' # Pending

\* every call of on_text_change leaves exactly the job it schedules pending,
\* Delay milliseconds ahead, so at most one job is pending at any time
OneJob ==
    /\ [](Cardinality(Pending) <= 1)
    /\ [][Called => /\ Len(_analysis_job') = 1
                    /\ Pending' = {_analysis_job'[1]}
                    /\ timers'[_analysis_job'[1]] = Delay]_vars

\* a job runs no earlier than Delay milliseconds after the latest call of
\* on_text_change, once, and its run is a run of analyze_code on the text of
\* the widget; a job leaves the pending jobs only by its run or by the next call
JobRunsOnce ==
    /\ [][JobRuns => since >= Delay /\ Pending' = {} /\ StartsRun]_vars
    /\ [][Pending' # Pending => Called \/ JobRuns]_vars
    /\ [][\A id \in Pending' : id \in Pending \/ (Called /\ id > events)]_vars

\* every run of analyze_code starts on tables created anew, and while it is
\* under way no other handler runs: the text, the job and the text under
\* analysis stay as they are
RunsApart ==
    /\ [][pc = "done" /\ pc' # "done" => StartsRun]_vars
    /\ [][pc # "done" => /\ UNCHANGED <<text_editor, _analysis_job, events, code>>
                         /\ Pending' = Pending]_vars

\* a pending job eventually runs or is replaced, and in the end no job is
\* pending and the last analysis is that of the text of the widget
Settles ==
    /\ \A id \in 1..(MaxEvents + 1) : (id \in Pending) ~> (id \notin Pending)
    /\ <>[](pc = "done" /\ Pending = {} /\ code = text_editor)

\* C25 (as stated): every call of on_text_change cancels the job scheduled before
\* and schedules analyze_code 1000 ms later, so at most one job is pending at
\* any time; after a burst of events less than 1000 ms apart analyze_code
\* eventually runs exactly once for that burst, on the text as it is after the
\* last edit: once 1000 ms have passed since the last call, the job it
\* scheduled runs and is not cancelled; and each run works on tables created
\* anew that no other run mutates.
C25_Debounce ==
    /\ OneJob
    /\ JobRunsOnce
    /\ RunsApart
    /\ Settles
    /\ [][Pending # {} /\ since >= Delay => Pending' = Pending \/ JobRuns]_vars

\* C25 (amended): as stated, but a burst is closed by the run of its job, not by
\* 1000 ms without a call: a job never runs less than 1000 ms after the latest
\* call of on_text_change, it leaves the pending jobs only by its run or by the
\* next call, whenever that call comes, and after the last call analyze_code
\* eventually runs exactly once, on the text as it is then.
C25_DebounceAmended ==
    /\ OneJob
    /\ JobRunsOnce
    /\ RunsApart
    /\ Settles

\* the job of the second of two calls has just run, on a text that is not the
\* sample text: no job is pending and the analysis of the text starts
C25_Witness ==
    /\ events = 2
    /\ _analysis_job = <<2>>
    /\ Pending = {}
    /\ since >= Delay
    /\ pc = "analyze_variables"
    /\ cursor = 1
    /\ code = text_editor
    /\ code # Sum
    /\ previous # <<>>
====
